---- MODULE Spec2Model ----
(***************************************************************************)
(* Conversation escalation and handoff core of the voice agent:            *)
(*   core/models.py, core/conversation_tracker.py,                         *)
(*   core/escalation_engine.py, core/handoff_manager.py,                   *)
(*   core/tracking_processor.py.                                           *)
(*                                                                         *)
(* Numbers.  Sentiment scores are kept in tenths (-10 .. 10 for -1.0 ..    *)
(* 1.0).  Escalation factors are kept in units of 1/FactorOne and the      *)
(* confidence in units of 1/ConfOne, so that the weighted sum of the       *)
(* engine is exact integer arithmetic.                                     *)
(***************************************************************************)
EXTENDS Integers, Sequences, FiniteSets, TLC

(***************************************************************************)
(* Bounds of the model.                                                    *)
(***************************************************************************)
MaxAlerts == 2
MaxQueueAlerts == 3
MaxClock == 1
MaxHandlers == 2
MaxTasks == 2
MaxTotalTurns == 2
MaxToolCalls == 1
MaxTalkTurns == 4
MaxTalkToolCalls == 2
MaxBots == 3

(***************************************************************************)
(* Identifiers: call ids are supplied by the caller of join_room, agent    *)
(* ids by the dashboard; a processor is one ConversationTrackingProcessor. *)
(***************************************************************************)
CallIds == {"c1", "c2"}
ProcIds == {"p1", "p2"}
AgentIds == {"a1"}

\* the agent ids of the dashboards and the rooms of the bots
DashboardAgents == {"a1", "a2"}
BotRooms == {"room1", "room2"}

(***************************************************************************)
(* Enumerations of core/models.py.                                         *)
(***************************************************************************)
SentimentLabel == {"positive", "neutral", "negative", "frustrated", "angry"}

IntentCategory ==
  {"greeting", "trip_inquiry", "faq_query", "complaint", "payment_issue",
   "safety_concern", "fraud_report", "harassment", "account_issue",
   "escalation_request", "confusion", "repeat_query", "appreciation",
   "farewell", "other"}

HandoffTrigger ==
  {"explicit_request", "high_frustration", "repeated_queries",
   "fraud_detection", "safety_emergency", "harassment_report",
   "tool_failures", "confidence_threshold", "bot_stuck", "long_conversation"}

HandoffPriority == {"urgent", "high", "medium", "low"}

HandoffStatus ==
  {"queued", "assigned", "in_progress", "completed", "abandoned", "cancelled"}

(***************************************************************************)
(* Utterances.  A user utterance is one of a fixed table of texts; what    *)
(* the keyword tables of the tracker make of each text is recorded here:   *)
(*   kw   the first category of INTENT_KEYWORDS with a keyword in the      *)
(*        lower-cased text ("other" when none),                            *)
(*   neg  the number of NEGATIVE_KEYWORDS in it,                           *)
(*   pos  the number of POSITIVE_KEYWORDS in it,                           *)
(*   excl the number of '!' in it.                                         *)
(*   1 "hello"                                                             *)
(*   2 "can you connect me to a human agent please"                        *)
(*   3 "there has been an accident I need police"                          *)
(*   4 "where is my order"                                                 *)
(*   5 "this is a terrible problem"                                        *)
(*   6 "you are TERRIBLE!! this is WORST service!!!"                       *)
(*   7 "someone committed fraud on my account"                             *)
(*   8 "he keeps harassing me"                                             *)
(*   9 "thanks that was great"                                             *)
(* Text 0 stands for a transcription that is empty after strip().         *)
(***************************************************************************)
TextTable ==
  << [kw |-> "other",              neg |-> 0, pos |-> 0, excl |-> 0],
     [kw |-> "escalation_request", neg |-> 0, pos |-> 0, excl |-> 0],
     [kw |-> "safety_concern",     neg |-> 0, pos |-> 0, excl |-> 0],
     [kw |-> "other",              neg |-> 0, pos |-> 0, excl |-> 0],
     [kw |-> "complaint",          neg |-> 1, pos |-> 0, excl |-> 0],
     [kw |-> "complaint",          neg |-> 2, pos |-> 0, excl |-> 5],
     [kw |-> "fraud_report",       neg |-> 0, pos |-> 0, excl |-> 0],
     [kw |-> "harassment",         neg |-> 0, pos |-> 0, excl |-> 0],
     [kw |-> "appreciation",       neg |-> 0, pos |-> 3, excl |-> 0] >>

Texts == 1 .. Len(TextTable)

(***************************************************************************)
(* Small helpers on sequences and numbers.                                 *)
(***************************************************************************)
Min2(a, b) == IF a < b THEN a ELSE b
Max2(a, b) == IF a > b THEN a ELSE b

RECURSIVE SumSeq(_)
SumSeq(s) == IF s = << >> THEN 0 ELSE Head(s) + SumSeq(Tail(s))

LastN(s, n) == IF Len(s) <= n THEN s ELSE SubSeq(s, Len(s) - n + 1, Len(s))

InSeq(x, s) == \E i \in 1 .. Len(s) : s[i] = x

(***************************************************************************)
(* ConversationState (core/models.py).  sid is the state's id (a uuid4 in  *)
(* the code, a fresh number here); sid 0 marks "no state".  An absent      *)
(* Optional value is "none" for enumerations and 0 for texts.              *)
(***************************************************************************)
FactorNames ==
  <<"repetition", "sentiment", "high_risk_intent", "tool_failures",
    "turn_count", "explicit_request">>

NoFactors == [k \in {} |-> 0]

NoState == [sid |-> 0]

\* driver_info is the phone number of the DriverInfo, "none" an absent one
NewConversationState(sid, call_id, room_name, driver_info) ==
  [ sid |-> sid, call_id |-> call_id, room_name |-> room_name,
    driver_info |-> IF driver_info = "none" THEN "unknown" ELSE driver_info,
    turns |-> << >>, turn_count |-> 0,
    current_sentiment |-> "neutral", sentiment_score |-> 0,
    sentiment_history |-> << >>, sentiment_trend |-> "stable",
    intent_history |-> << >>, current_intent |-> "none",
    high_risk_intents_detected |-> << >>,
    query_history |-> << >>, repeat_count |-> 0, last_repeated_query |-> 0,
    tool_calls_made |-> << >>,
    tool_success_count |-> 0, tool_failure_count |-> 0,
    actions_taken |-> << >>,
    escalation_confidence |-> 0, escalation_factors |-> NoFactors,
    escalation_triggered |-> FALSE, escalation_trigger |-> "none" ]

(***************************************************************************)
(* NLU of the tracker (core/conversation_tracker.py).                      *)
(***************************************************************************)
\* SequenceMatcher ratio of the cleaned texts >= SIMILARITY_THRESHOLD: among
\* the texts of TextTable only a text and itself reach 0.7.
IsSimilar(text, prev) == text = prev

\* _check_repetition: a query of the last 10 is similar to the content
CheckRepetition(state, text) ==
  \E i \in 1 .. Len(LastN(state.query_history, 10)) :
     IsSimilar(text, LastN(state.query_history, 10)[i])

\* the label of a clamped score, in tenths
SentimentOfScore(score) ==
  IF score <= -6 THEN "angry"
  ELSE IF score <= -3 THEN "frustrated"
  ELSE IF score < -1 THEN "negative"
  ELSE IF score <= 3 THEN "neutral"
  ELSE "positive"

\* _analyze_sentiment(content_lower, state): [label, score].  The content it
\* is given is already lower-cased, so its caps_ratio is 0 and the
\* "caps_ratio > 0.5" adjustment never applies.
AnalyzeSentiment(text, state) ==
  LET t == TextTable[text]
      base0 == IF t.neg > t.pos THEN -3 * t.neg
               ELSE IF t.pos > t.neg THEN 3 * t.pos
               ELSE 0
      base1 == IF t.excl >= 2 THEN base0 - 2 ELSE base0
      last5 == LastN(state.sentiment_history, 5)
      \* avg_history < -0.3, the average taken over len(last5)
      base2 == IF last5 # << >> /\ SumSeq(last5) < -3 * Len(last5)
               THEN base1 - 1 ELSE base1
      score == Max2(-10, Min2(10, base2))
  IN [label |-> SentimentOfScore(score), score |-> score]

\* _analyze_turn(state, content): the NLUResult, and the state with the
\* repetition it records (repeat_count, last_repeated_query)
AnalyzeTurn(state, text) ==
  LET kw == TextTable[text].kw
      sent == AnalyzeSentiment(text, state)
      is_repeat == CheckRepetition(state, text)
      intent == IF is_repeat /\ kw = "other" THEN "repeat_query" ELSE kw
  IN [ nlu |-> [intent |-> intent, sentiment |-> sent.label,
                sentiment_score |-> sent.score, is_repeat_query |-> is_repeat],
       state |-> IF is_repeat
                 THEN [state EXCEPT !.repeat_count = @ + 1,
                                    !.last_repeated_query = text]
                 ELSE state ]

HighRiskTracked ==
  {"fraud_report", "harassment", "safety_concern", "escalation_request"}

\* sentiment_trend from the last three scores of the history
TrendOf(history, old) ==
  IF Len(history) >= 3
  THEN LET recent == LastN(history, 3)
       IN IF recent[3] < recent[1] - 2 THEN "declining"
          ELSE IF recent[3] > recent[1] + 2 THEN "improving"
          ELSE "stable"
  ELSE old

\* ConversationState.update_from_nlu
UpdateFromNlu(state, nlu) ==
  LET hist == Append(state.sentiment_history, nlu.sentiment_score)
  IN [state EXCEPT
        !.sentiment_score = nlu.sentiment_score,
        !.current_sentiment = nlu.sentiment,
        !.sentiment_history = hist,
        !.sentiment_trend = TrendOf(hist, @),
        !.current_intent = nlu.intent,
        !.intent_history = Append(@, nlu.intent),
        !.high_risk_intents_detected =
            IF nlu.intent \in HighRiskTracked THEN Append(@, nlu.intent) ELSE @,
        !.repeat_count = IF nlu.is_repeat_query THEN @ + 1 ELSE @]

\* ConversationState.add_turn(role, content, nlu_result), nlu a record or
\* the string "none"
AddTurn(state, role, text, hasNlu, nlu) ==
  LET s1 == [state EXCEPT
               !.turns = Append(@, [role |-> role, content |-> text]),
               !.turn_count = @ + 1]
  IN IF hasNlu THEN UpdateFromNlu(s1, nlu) ELSE s1

\* ConversationTracker.add_user_turn(call_id, content, analyze) on a state
\* the tracker holds
AddUserTurn(state, text, analyze) ==
  LET a == AnalyzeTurn(state, text)
      s1 == IF analyze THEN AddTurn(a.state, "user", text, TRUE, a.nlu)
            ELSE AddTurn(state, "user", text, FALSE, a.nlu)
  IN [s1 EXCEPT !.query_history = Append(@, text)]

\* add_assistant_turn that appends the turn and does not count it
AddAssistantTurnUncounted(state, text) ==
  [state EXCEPT !.turns = Append(@, [role |-> "assistant", content |-> text])]

\* ConversationTracker.add_assistant_turn on a state the tracker holds
AddAssistantTurn(state, text) ==
  [state EXCEPT !.turns = Append(@, [role |-> "assistant", content |-> text]),
                !.turn_count = @ + 1]

\* record_tool_call that counts consecutive failures: a success resets them
RecordToolCallResetsFailures(state, tool_name, success) ==
  [state EXCEPT
     !.tool_calls_made = Append(@, tool_name),
     !.tool_success_count = IF success THEN @ + 1 ELSE @,
     !.tool_failure_count = IF success THEN 0 ELSE @ + 1,
     !.actions_taken = Append(@, [action |-> tool_name, success |-> success])]

\* ConversationState.record_tool_call
RecordToolCall(state, tool_name, success) ==
  [state EXCEPT
     !.tool_calls_made = Append(@, tool_name),
     !.tool_success_count = IF success THEN @ + 1 ELSE @,
     !.tool_failure_count = IF success THEN @ ELSE @ + 1,
     !.actions_taken = Append(@, [action |-> tool_name, success |-> success])]

(***************************************************************************)
(* Escalation engine (core/escalation_engine.py).  A factor f of the code  *)
(* is the integer f * FactorOne here (FactorOne is divisible by 8 and by   *)
(* every total of tool calls up to 10, so each factor is exact); a weight  *)
(* w is w * 100; the confidence c is c * ConfOne, ConfOne = 100*FactorOne. *)
(***************************************************************************)
FactorOne == 2520 * 10
ConfOne == 100 * FactorOne

\* WEIGHTS, in hundredths
WeightOf(k) ==
  CASE k = "repetition" -> 20
    [] k = "sentiment" -> 20
    [] k = "high_risk_intent" -> 25
    [] k = "tool_failures" -> 10
    [] k = "turn_count" -> 10
    [] k = "explicit_request" -> 15

\* AUTO_ESCALATE_THRESHOLD = 0.75, PREPARE_HANDOFF_THRESHOLD = 0.55
AutoEscalateThreshold == (75 * ConfOne) \div 100
PrepareHandoffThreshold == (55 * ConfOne) \div 100

MaxTurnsBeforePenalty == 10
MaxToolFailuresBeforePenalty == 2

HighRiskIntents ==
  {"complaint", "payment_issue", "account_issue", "escalation_request"}

\* an immediate-escalation check that leaves HARASSMENT out
ImmediateTriggerOfSafetyAndFraud(intent) ==
  CASE intent = "safety_concern" -> "safety_emergency"
    [] intent = "fraud_report" -> "fraud_detection"
    [] OTHER -> "none"

\* the trigger of one intent of the scan of _check_immediate_escalation
ImmediateTriggerOf(intent) ==
  CASE intent = "safety_concern" -> "safety_emergency"
    [] intent = "harassment" -> "harassment_report"
    [] intent = "fraud_report" -> "fraud_detection"
    [] OTHER -> "none"

\* _check_immediate_escalation: the trigger of the first intent of
\* high_risk_intents_detected that has one, "none" when there is none
RECURSIVE ScanImmediate(_)
ScanImmediate(intents) ==
  IF intents = << >> THEN "none"
  ELSE IF ImmediateTriggerOf(Head(intents)) # "none"
       THEN ImmediateTriggerOf(Head(intents))
       ELSE ScanImmediate(Tail(intents))

CheckImmediateEscalation(state) == ScanImmediate(state.high_risk_intents_detected)

\* a repetition factor that stops at 0.6
CalcRepetitionFactorNeverFull(state) ==
  IF state.repeat_count = 0 THEN 0
  ELSE IF state.repeat_count = 1 THEN (3 * FactorOne) \div 10
  ELSE (6 * FactorOne) \div 10

CalcRepetitionFactor(state) ==
  IF state.repeat_count = 0 THEN 0
  ELSE IF state.repeat_count = 1 THEN (3 * FactorOne) \div 10
  ELSE IF state.repeat_count = 2 THEN (6 * FactorOne) \div 10
  ELSE FactorOne

\* a sentiment factor whose adjustments are not capped at 1.0
CalcSentimentFactorUncapped(state) ==
  LET f0 == CASE state.current_sentiment = "angry" -> (8 * FactorOne) \div 10
              [] state.current_sentiment = "frustrated" -> (6 * FactorOne) \div 10
              [] state.current_sentiment = "negative" -> (3 * FactorOne) \div 10
              [] OTHER -> 0
      f1 == IF state.sentiment_trend = "declining"
            THEN f0 + (2 * FactorOne) \div 10
            ELSE IF state.sentiment_trend = "improving"
            THEN Max2(0, f0 - FactorOne \div 10)
            ELSE f0
      h == state.sentiment_history
      neg == Cardinality({i \in 1 .. Len(h) : h[i] < -2})
  IN IF Len(h) >= 3 /\ 2 * neg > Len(h)
     THEN f1 + (2 * FactorOne) \div 10
     ELSE f1

CalcSentimentFactor(state) ==
  LET f0 == CASE state.current_sentiment = "angry" -> (8 * FactorOne) \div 10
              [] state.current_sentiment = "frustrated" -> (6 * FactorOne) \div 10
              [] state.current_sentiment = "negative" -> (3 * FactorOne) \div 10
              [] OTHER -> 0
      f1 == IF state.sentiment_trend = "declining"
            THEN Min2(FactorOne, f0 + (2 * FactorOne) \div 10)
            ELSE IF state.sentiment_trend = "improving"
            THEN Max2(0, f0 - FactorOne \div 10)
            ELSE f0
      h == state.sentiment_history
      \* negative_ratio > 0.5: more than half of the scores are < -0.2
      neg == Cardinality({i \in 1 .. Len(h) : h[i] < -2})
  IN IF Len(h) >= 3 /\ 2 * neg > Len(h)
     THEN Min2(FactorOne, f1 + (2 * FactorOne) \div 10)
     ELSE f1

\* an intent factor that is full as soon as one high-risk intent was detected
CalcIntentFactorFullAtOne(state) ==
  IF state.high_risk_intents_detected = << >>
  THEN IF state.current_intent \in HighRiskIntents
       THEN (4 * FactorOne) \div 10 ELSE 0
  ELSE FactorOne

CalcIntentFactor(state) ==
  IF state.high_risk_intents_detected = << >>
  THEN IF state.current_intent \in HighRiskIntents
       THEN (4 * FactorOne) \div 10 ELSE 0
  ELSE IF Len(state.high_risk_intents_detected) >= 2 THEN FactorOne
  ELSE (7 * FactorOne) \div 10

\* a tool failure factor that returns the penalty without the failure rate
CalcToolFailureFactorPenaltyOnly(state) ==
  LET total == state.tool_success_count + state.tool_failure_count
      rate == (state.tool_failure_count * FactorOne) \div Max2(total, 1)
  IN IF state.tool_failure_count = 0 THEN 0
     ELSE IF state.tool_failure_count >= MaxToolFailuresBeforePenalty
     THEN (3 * FactorOne) \div 10
     ELSE rate

CalcToolFailureFactor(state) ==
  LET total == state.tool_success_count + state.tool_failure_count
      rate == (state.tool_failure_count * FactorOne) \div Max2(total, 1)
  IN IF state.tool_failure_count = 0 THEN 0
     ELSE IF total = 0 THEN 0
     ELSE IF state.tool_failure_count >= MaxToolFailuresBeforePenalty
     THEN Min2(FactorOne, rate + (3 * FactorOne) \div 10)
     ELSE rate

CalcTurnCountFactor(state) ==
  IF state.turn_count <= 6 THEN 0
  ELSE IF state.turn_count <= MaxTurnsBeforePenalty
  THEN ((state.turn_count - 6) * FactorOne) \div (2 * (MaxTurnsBeforePenalty - 6))
  ELSE FactorOne

CalcExplicitRequestFactor(state) ==
  IF InSeq("escalation_request", state.intent_history) THEN FactorOne ELSE 0

\* the six factors of steps 2 to 7 of compute_confidence
CalcFactors(state) ==
  [ repetition |-> CalcRepetitionFactor(state),
    sentiment |-> CalcSentimentFactor(state),
    high_risk_intent |-> CalcIntentFactor(state),
    tool_failures |-> CalcToolFailureFactor(state),
    turn_count |-> CalcTurnCountFactor(state),
    explicit_request |-> CalcExplicitRequestFactor(state) ]

AllOnes == [k \in {FactorNames[i] : i \in 1 .. Len(FactorNames)} |-> FactorOne]

WeightedSum(factors) ==
  SumSeq([i \in 1 .. Len(FactorNames) |->
            factors[FactorNames[i]] * WeightOf(FactorNames[i])])

TriggerMap(k) ==
  CASE k = "explicit_request" -> "explicit_request"
    [] k = "high_risk_intent" -> "confidence_threshold"
    [] k = "repetition" -> "repeated_queries"
    [] k = "sentiment" -> "high_frustration"
    [] k = "tool_failures" -> "tool_failures"
    [] k = "turn_count" -> "long_conversation"

\* a _determine_trigger that takes the last of the greatest factors
DetermineTriggerLastGreatest(state, factors) ==
  LET best == CHOOSE i \in 1 .. Len(FactorNames) :
                 /\ \A j \in 1 .. Len(FactorNames) :
                       factors[FactorNames[j]] <= factors[FactorNames[i]]
                 /\ \A j \in i + 1 .. Len(FactorNames) :
                       factors[FactorNames[j]] < factors[FactorNames[i]]
  IN TriggerMap(FactorNames[best])

\* _determine_trigger: max() over factors.items() returns the first item, in
\* insertion order, whose value is the greatest
DetermineTrigger(state, factors) ==
  LET best == CHOOSE i \in 1 .. Len(FactorNames) :
                 /\ \A j \in 1 .. Len(FactorNames) :
                       factors[FactorNames[j]] <= factors[FactorNames[i]]
                 /\ \A j \in 1 .. i - 1 :
                       factors[FactorNames[j]] < factors[FactorNames[i]]
  IN TriggerMap(FactorNames[best])

\* a compute_confidence that also records the trigger it found in the state
ComputeConfidenceRecordsTrigger(state) ==
  LET immediate == CheckImmediateEscalation(state)
      factors == CalcFactors(state)
      confidence == WeightedSum(factors)
      trigger == IF confidence >= AutoEscalateThreshold
                 THEN DetermineTrigger(state, factors) ELSE "none"
  IN IF immediate # "none"
     THEN [ confidence |-> ConfOne, factors |-> AllOnes, trigger |-> immediate,
            state |-> [state EXCEPT !.escalation_confidence = ConfOne,
                                    !.escalation_factors = AllOnes,
                                    !.escalation_trigger = immediate] ]
     ELSE [ confidence |-> confidence, factors |-> factors, trigger |-> trigger,
            state |-> [state EXCEPT !.escalation_confidence = confidence,
                                    !.escalation_factors = factors,
                                    !.escalation_trigger = trigger] ]

\* compute_confidence(state): what it returns (confidence, factors, trigger)
\* and the state with escalation_confidence and escalation_factors updated
ComputeConfidence(state) ==
  LET immediate == CheckImmediateEscalation(state)
      factors == CalcFactors(state)
      confidence == WeightedSum(factors)
      trigger == IF confidence >= AutoEscalateThreshold
                 THEN DetermineTrigger(state, factors) ELSE "none"
  IN IF immediate # "none"
     THEN [ confidence |-> ConfOne, factors |-> AllOnes, trigger |-> immediate,
            state |-> [state EXCEPT !.escalation_confidence = ConfOne,
                                    !.escalation_factors = AllOnes] ]
     ELSE [ confidence |-> confidence, factors |-> factors, trigger |-> trigger,
            state |-> [state EXCEPT !.escalation_confidence = confidence,
                                    !.escalation_factors = factors] ]

\* get_priority without the urgent triggers
GetPriorityNeverUrgent(state, trigger) ==
  IF trigger = "explicit_request" THEN "high"
  ELSE IF trigger = "high_frustration"
  THEN IF state.current_sentiment = "angry" THEN "high" ELSE "medium"
  ELSE IF trigger \in {"repeated_queries", "tool_failures"} THEN "medium"
  ELSE "low"

\* get_priority that ranks HIGH_FRUSTRATION high whatever the sentiment
GetPriorityFrustrationHigh(state, trigger) ==
  IF trigger \in {"safety_emergency", "harassment_report", "fraud_detection"}
  THEN "urgent"
  ELSE IF trigger \in {"explicit_request", "high_frustration"} THEN "high"
  ELSE IF trigger \in {"repeated_queries", "tool_failures"} THEN "medium"
  ELSE "low"

\* get_priority(state, trigger)
GetPriority(state, trigger) ==
  IF trigger \in {"safety_emergency", "harassment_report", "fraud_detection"}
  THEN "urgent"
  ELSE IF trigger = "explicit_request" THEN "high"
  ELSE IF trigger = "high_frustration"
  THEN IF state.current_sentiment = "angry" THEN "high" ELSE "medium"
  ELSE IF trigger \in {"repeated_queries", "tool_failures"} THEN "medium"
  ELSE "low"

ShouldWarn(state) == state.escalation_confidence >= PrepareHandoffThreshold
ShouldEscalate(state) == state.escalation_confidence >= AutoEscalateThreshold

(***************************************************************************)
(* State.                                                                  *)
(*   conversations  ConversationTracker._conversations: call_id -> state   *)
(*                  (NoState when the call_id is not a key)                *)
(*   nextSid        the number of ConversationStates constructed so far    *)
(*   procs          the ConversationTrackingProcessors                     *)
(*   alerts         every HandoffAlert constructed so far, by alert id     *)
(*                  (ids are handed out 1, 2, ...)                         *)
(*   queue, byId, byCallId   HandoffQueue._queue, ._by_id, ._by_call_id    *)
(*   active, completed       HandoffManager._active_handoffs (call_id ->   *)
(*                  alert id, 0 when absent) and ._completed_handoffs      *)
(*   handlers       the number of handlers of HandoffNotifier._handlers    *)
(*   tasks          the manager calls suspended in a fan-out of the        *)
(*                  notifier                                               *)
(*   delivered      for each handler of the notifier, in registration      *)
(*                  order, the events it has been called with so far       *)
(*   now            the last value datetime.utcnow() returned              *)
(*   cbCalls        the calls of on_handoff_triggered made so far          *)
(*   returned       what compute_confidence returned to a caller that      *)
(*                  called the engine directly, or what the last manager   *)
(*                  call or handler that ended early gave its caller       *)
(*                  (NoReturn before)                                      *)
(*   dashboards     for each agent id, whether dashboard_manager holds a   *)
(*                  websocket for it (AgentDashboardManager.connections),  *)
(*                  the alerts whose new_alert message that websocket was  *)
(*                  sent, in order, and how many alerts existed when it    *)
(*                  connected                                              *)
(*   active_bots    BotManager.active_bots: room_name -> bot id (0 when    *)
(*                  the room is not a key)                                 *)
(*   instances      every BotInstance constructed so far, by bot id, with  *)
(*                  the progress of its asyncio task                       *)
(*   leaves         the leave_room calls that are suspended                *)
(***************************************************************************)
VARIABLES conversations, nextSid, procs, alerts, queue, byId, byCallId,
          active, completed, handlers, tasks, delivered, now, cbCalls, returned,
          dashboards, active_bots, instances, leaves

\* the state of BotManager
botVars == <<active_bots, instances, leaves>>

\* the state of the API layer: the dashboards and the bots
apiVars == <<dashboards, botVars>>

vars == <<conversations, nextSid, procs, alerts, queue, byId, byCallId,
          active, completed, handlers, tasks, delivered, now, cbCalls,
          returned, apiVars>>

AlertIds == 1 .. Len(alerts)

NoReturn == [trigger |-> "nothing"]

HasConversation(c) == conversations[c].sid # 0

\* a processor that has not been constructed yet
NoProc ==
  [ created |-> FALSE, call_id |-> "none", room_name |-> "none", state |-> 0,
    has_callback |-> FALSE, handoff_triggered |-> FALSE,
    in_response |-> FALSE, current_response |-> FALSE,
    current_tool_call |-> "none", pc |-> "idle", ended |-> FALSE ]

(***************************************************************************)
(* HandoffQueue (core/handoff_manager.py).                                 *)
(***************************************************************************)
\* PRIORITY_ORDER.get(priority, 99)
PriorityOrder(priority) ==
  CASE priority = "urgent" -> 0
    [] priority = "high" -> 1
    [] priority = "medium" -> 2
    [] priority = "low" -> 3
    [] OTHER -> 99

\* a sort that is not stable: an alert goes before the alerts of equal key
KeyLessOrEqual(al, a, b) ==
  \/ PriorityOrder(al[a].priority) < PriorityOrder(al[b].priority)
  \/ /\ PriorityOrder(al[a].priority) = PriorityOrder(al[b].priority)
     /\ al[a].created_at <= al[b].created_at

\* the sort key of add() of alert a is less than that of alert b
KeyLess(al, a, b) ==
  \/ PriorityOrder(al[a].priority) < PriorityOrder(al[b].priority)
  \/ /\ PriorityOrder(al[a].priority) = PriorityOrder(al[b].priority)
     /\ al[a].created_at < al[b].created_at

\* list.sort(key) is stable: an element goes behind every element whose key
\* is not greater than its own
RECURSIVE InsertByKey(_, _, _)
InsertByKey(al, x, sorted) ==
  IF sorted = << >> THEN <<x>>
  ELSE IF KeyLess(al, x, Head(sorted)) THEN <<x>> \o sorted
  ELSE <<Head(sorted)>> \o InsertByKey(al, x, Tail(sorted))

RECURSIVE SortInto(_, _, _)
SortInto(al, rest, sorted) ==
  IF rest = << >> THEN sorted
  ELSE SortInto(al, Tail(rest), InsertByKey(al, Head(rest), sorted))

\* add() that appends and does not sort
SortQueueAppendOnly(al, q) == q

SortQueue(al, q) == SortInto(al, q, << >>)

IndexOf(q, id) == CHOOSE i \in 1 .. Len(q) : q[i] = id

\* positions re-indexed with the wait estimate refreshed from them
UpdatePositionsRefreshesWait(al, q) ==
  [id \in DOMAIN al |->
     IF InSeq(id, q)
     THEN [al[id] EXCEPT !.queue_position = IndexOf(q, id),
                         !.estimated_wait_seconds = 60 * IndexOf(q, id)]
     ELSE al[id]]

\* for i, a in enumerate(self._queue): a.queue_position = i + 1
UpdatePositions(al, q) ==
  [id \in DOMAIN al |->
     IF InSeq(id, q) THEN [al[id] EXCEPT !.queue_position = IndexOf(q, id)]
     ELSE al[id]]

RECURSIVE Without(_, _)
Without(q, id) ==
  IF q = << >> THEN << >>
  ELSE IF Head(q) = id THEN Without(Tail(q), id)
  ELSE <<Head(q)>> \o Without(Tail(q), id)

\* HandoffQueue.add(alert): the queue, the indices and the alerts after it
QueueAdd(al, q, ids, calls, id) ==
  LET q1 == SortQueue(al, Append(q, id))
  IN [ queue |-> q1,
       byId |-> ids \cup {id},
       byCallId |-> [calls EXCEPT ![al[id].call_id] = id],
       alerts |-> UpdatePositions(al, q1),
       position |-> IndexOf(q1, id) ]

\* remove() that takes the alert out of the list and leaves the indices
QueueRemoveKeepsIndex(al, q, ids, calls, id) ==
  LET q1 == Without(q, id)
  IN [ queue |-> q1, byId |-> ids, byCallId |-> calls,
       alerts |-> UpdatePositions(al, q1) ]

\* HandoffQueue.remove(alert_id) of an alert id that is a key of _by_id
QueueRemove(al, q, ids, calls, id) ==
  LET q1 == Without(q, id)
  IN [ queue |-> q1,
       byId |-> ids \ {id},
       byCallId |-> [calls EXCEPT ![al[id].call_id] = 0],
       alerts |-> UpdatePositions(al, q1) ]

\* get_by_id, get_by_call_id: the alert id found, 0 for None
GetById(id) == IF id \in byId THEN id ELSE 0
GetByCallId(c) == byCallId[c]

(***************************************************************************)
(* HandoffManager (core/handoff_manager.py).                               *)
(***************************************************************************)
WaitTimePerPosition == 60

\* datetime.utcnow() returns t: the clock does not run backwards, and two
\* readings may be equal
ReadsClock(t) == t \in {now, now + 1} /\ t <= MaxClock

\* an alert constructed without the context of the conversation
NewAlertWithoutContext(id, state, trigger, priority, t, via) ==
  [ id |-> id, conversation_id |-> state.sid, call_id |-> state.call_id,
    room_name |-> state.room_name, driver_info |-> "unknown",
    trigger |-> trigger,
    priority |-> priority, status |-> "queued",
    intent_history |-> << >>,
    current_intent |-> state.current_intent,
    sentiment |-> "neutral",
    sentiment_score |-> state.sentiment_score,
    conversation_turns |-> << >>,
    actions_taken_by_bot |-> << >>,
    queue_position |-> 0, estimated_wait_seconds |-> 0,
    assigned_agent_id |-> "none",
    created_at |-> t, assigned_at |-> -1, started_at |-> -1,
    completed_at |-> -1, via |-> via ]

\* HandoffAlert(...) as trigger_handoff constructs it; via records the caller
\* (a processor id, or "api" for a direct call); an unset Optional timestamp
\* is -1, an unset queue_position or estimated_wait_seconds 0
NewAlert(id, state, trigger, priority, t, via) ==
  [ id |-> id, conversation_id |-> state.sid, call_id |-> state.call_id,
    room_name |-> state.room_name, driver_info |-> state.driver_info,
    trigger |-> trigger,
    priority |-> priority, status |-> "queued",
    intent_history |-> state.intent_history,
    current_intent |-> state.current_intent,
    sentiment |-> state.current_sentiment,
    sentiment_score |-> state.sentiment_score,
    conversation_turns |-> state.turns,
    actions_taken_by_bot |-> state.actions_taken,
    queue_position |-> 0, estimated_wait_seconds |-> 0,
    assigned_agent_id |-> "none",
    created_at |-> t, assigned_at |-> -1, started_at |-> -1,
    completed_at |-> -1, via |-> via ]

\* trigger_handoff(state, trigger, priority) up to its await of the notifier:
\* the alert is constructed and added to the queue, estimated_wait_seconds is
\* set from the position add() returned, and the state is marked escalated
TriggerHandoffSync(state, trigger, priority, t, via) ==
  LET id == Len(alerts) + 1
      al0 == Append(alerts, NewAlert(id, state, trigger, priority, t, via))
      r == QueueAdd(al0, queue, byId, byCallId, id)
  IN [ queue |-> r.queue, byId |-> r.byId, byCallId |-> r.byCallId,
       alerts |-> [r.alerts EXCEPT ![id].estimated_wait_seconds =
                                       r.position * WaitTimePerPosition],
       state |-> [state EXCEPT !.escalation_triggered = TRUE,
                               !.escalation_trigger = trigger],
       alert |-> id ]

\* the event a handler is called with: the alert, and for notify_update the
\* event name ("new_alert" stands for the call of notify_new_alert)
Event(kind, id) == [kind |-> kind, alert |-> id]

\* a manager call suspended in the fan-out of its event: i handlers have been
\* called, and the call waits in the i-th; proc is the processor that awaits
\* trigger_handoff, "none" for any other caller. grew (a handler has been
\* appended to _handlers since the loop began) and raised (a handler of this
\* fan-out has raised) record the history of the fan-out
Task(kind, id, p) ==
  [kind |-> kind, alert |-> id, i |-> 1, proc |-> p, grew |-> FALSE,
   raised |-> FALSE]

\* the loop of the fan-out calls the h-th handler with the event
Invoked(h, kind, id) == [delivered EXCEPT ![h] = Append(@, Event(kind, id))]

\* notify_new_alert / notify_update: with no handler the loop body never runs
\* and the call does not suspend
Suspends == handlers > 0

\* bound on the manager calls suspended at once
MayCall == Suspends => Cardinality(tasks) < MaxTasks

\* notify_new_alert / notify_update entered: the first handler is called
Emitted(kind, id) == IF Suspends THEN Invoked(1, kind, id) ELSE delivered

\* an agent id without websocket
NoDashboard == [connected |-> FALSE, new_alerts |-> << >>, since |-> 0]

\* broadcast_new_alert: the handler of a dashboard, called with a new alert,
\* sends the new_alert message to every websocket of connections
Broadcast(id) ==
  [agent \in DashboardAgents |->
     IF dashboards[agent].connected
     THEN [dashboards[agent] EXCEPT !.new_alerts = Append(@, id)]
     ELSE dashboards[agent]]

\* the handler is called with (alert, event) by notify_update and raises
\* TypeError before it sends anything
Sent(kind, id) == IF kind = "new_alert" THEN Broadcast(id) ELSE dashboards

\* trigger_handoff called on the state the tracker holds for call c by a
\* caller other than a processor (tools/handlers.py calls it so)
TriggerHandoff(c, trigger, priority) ==
  /\ HasConversation(c)
  /\ MayCall
  /\ \E t \in 0 .. MaxClock :
       /\ ReadsClock(t)
       /\ LET r == TriggerHandoffSync(conversations[c], trigger, priority, t, "api")
          IN /\ alerts' = r.alerts
             /\ queue' = r.queue
             /\ byId' = r.byId
             /\ byCallId' = r.byCallId
             /\ conversations' = [conversations EXCEPT ![c] = r.state]
             /\ tasks' = IF Suspends
                         THEN tasks \cup {Task("new_alert", r.alert, "none")}
                         ELSE tasks
             /\ delivered' = Emitted("new_alert", r.alert)
             /\ dashboards' = IF Suspends THEN Broadcast(r.alert) ELSE dashboards
       /\ now' = t
  /\ UNCHANGED <<nextSid, procs, active, completed, handlers, cbCalls>>
  /\ UNCHANGED <<returned, botVars>>

\* assign_agent that takes any alert the manager has created, whether or not
\* the queue still holds it
AssignAgentAnyAlert(id, agent) ==
  /\ MayCall
  /\ \E t \in 0 .. MaxClock :
       /\ ReadsClock(t)
       /\ LET r == QueueRemove(alerts, queue, byId, byCallId, id)
          IN /\ queue' = r.queue
             /\ byId' = r.byId
             /\ byCallId' = r.byCallId
             /\ alerts' = [r.alerts EXCEPT ![id].status = "assigned",
                                           ![id].assigned_agent_id = agent,
                                           ![id].assigned_at = t]
       /\ now' = t
  /\ active' = [active EXCEPT ![alerts[id].call_id] = id]
  /\ tasks' = IF Suspends THEN tasks \cup {Task("assigned", id, "none")} ELSE tasks
  /\ delivered' = Emitted("assigned", id)
  /\ UNCHANGED <<conversations, nextSid, procs, completed, handlers, cbCalls>>
  /\ UNCHANGED <<returned, apiVars>>

\* assign_agent that takes an alert again when it is ASSIGNED already
AssignAgentAgain(id, agent) ==
  /\ id \in byId \/ alerts[id].status = "assigned"
  /\ MayCall
  /\ \E t \in 0 .. MaxClock :
       /\ ReadsClock(t)
       /\ LET r == QueueRemove(alerts, queue, byId, byCallId, id)
          IN /\ queue' = r.queue
             /\ byId' = r.byId
             /\ byCallId' = r.byCallId
             /\ alerts' = [r.alerts EXCEPT ![id].status = "assigned",
                                           ![id].assigned_agent_id = agent,
                                           ![id].assigned_at = t]
       /\ now' = t
  /\ active' = [active EXCEPT ![alerts[id].call_id] = id]
  /\ tasks' = IF Suspends THEN tasks \cup {Task("assigned", id, "none")} ELSE tasks
  /\ delivered' = Emitted("assigned", id)
  /\ UNCHANGED <<conversations, nextSid, procs, completed, handlers, cbCalls>>
  /\ UNCHANGED <<returned, apiVars>>

\* assign_agent(alert_id, agent_id) for an alert id the queue holds
AssignAgent(id, agent) ==
  /\ id \in byId
  /\ MayCall
  /\ \E t \in 0 .. MaxClock :
       /\ ReadsClock(t)
       /\ LET r == QueueRemove(alerts, queue, byId, byCallId, id)
          IN /\ queue' = r.queue
             /\ byId' = r.byId
             /\ byCallId' = r.byCallId
             /\ alerts' = [r.alerts EXCEPT ![id].status = "assigned",
                                           ![id].assigned_agent_id = agent,
                                           ![id].assigned_at = t]
       /\ now' = t
  /\ active' = [active EXCEPT ![alerts[id].call_id] = id]
  /\ tasks' = IF Suspends THEN tasks \cup {Task("assigned", id, "none")} ELSE tasks
  /\ delivered' = Emitted("assigned", id)
  /\ UNCHANGED <<conversations, nextSid, procs, completed, handlers, cbCalls>>
  /\ UNCHANGED <<returned, apiVars>>

\* the alert start_handoff_call and complete_handoff find: a value of
\* _active_handoffs whose id is alert_id
IsActive(id) == \E c \in CallIds : active[c] = id

\* start_handoff_call that does not look at the status of the alert it finds
StartHandoffCallAnyStatus(id, tokenOk) ==
  /\ IsActive(id)
  /\ MayCall
  /\ \E t \in 0 .. MaxClock :
       /\ ReadsClock(t)
       /\ alerts' = [alerts EXCEPT ![id].status = "in_progress",
                                   ![id].started_at = t]
       /\ now' = t
  /\ tasks' = IF tokenOk /\ Suspends
              THEN tasks \cup {Task("started", id, "none")} ELSE tasks
  /\ delivered' = IF tokenOk THEN Emitted("started", id) ELSE delivered
  /\ UNCHANGED <<conversations, nextSid, procs, queue, byId, byCallId, active,
                 completed, handlers, cbCalls>>
  /\ UNCHANGED <<returned, apiVars>>

\* start_handoff_call(alert_id) for an alert it finds in state ASSIGNED; the
\* status and started_at are written before generate_agent_token is called,
\* and when that raises (tokenOk false) the exception leaves the call there
StartHandoffCall(id, tokenOk) ==
  /\ IsActive(id)
  /\ alerts[id].status = "assigned"
  /\ MayCall
  /\ \E t \in 0 .. MaxClock :
       /\ ReadsClock(t)
       /\ alerts' = [alerts EXCEPT ![id].status = "in_progress",
                                   ![id].started_at = t]
       /\ now' = t
  /\ tasks' = IF tokenOk /\ Suspends
              THEN tasks \cup {Task("started", id, "none")} ELSE tasks
  /\ delivered' = IF tokenOk THEN Emitted("started", id) ELSE delivered
  /\ UNCHANGED <<conversations, nextSid, procs, queue, byId, byCallId, active,
                 completed, handlers, cbCalls>>
  /\ UNCHANGED <<returned, apiVars>>

\* complete_handoff that leaves the alert it completes in _active_handoffs
CompleteHandoffKeepsActive(id) ==
  /\ IsActive(id)
  /\ MayCall
  /\ \E t \in 0 .. MaxClock :
       /\ ReadsClock(t)
       /\ alerts' = [alerts EXCEPT ![id].status = "completed",
                                   ![id].completed_at = t]
       /\ now' = t
  /\ completed' = Append(completed, id)
  /\ tasks' = IF Suspends THEN tasks \cup {Task("completed", id, "none")} ELSE tasks
  /\ delivered' = Emitted("completed", id)
  /\ UNCHANGED <<conversations, nextSid, procs, queue, byId, byCallId, active,
                 handlers, cbCalls>>
  /\ UNCHANGED <<returned, apiVars>>

\* complete_handoff(alert_id) for an alert it finds in _active_handoffs
CompleteHandoff(id) ==
  /\ IsActive(id)
  /\ MayCall
  /\ \E t \in 0 .. MaxClock :
       /\ ReadsClock(t)
       /\ alerts' = [alerts EXCEPT ![id].status = "completed",
                                   ![id].completed_at = t]
       /\ now' = t
  /\ active' = [c \in CallIds |-> IF active[c] = id THEN 0 ELSE active[c]]
  /\ completed' = Append(completed, id)
  /\ tasks' = IF Suspends THEN tasks \cup {Task("completed", id, "none")} ELSE tasks
  /\ delivered' = Emitted("completed", id)
  /\ UNCHANGED <<conversations, nextSid, procs, queue, byId, byCallId,
                 handlers, cbCalls>>
  /\ UNCHANGED <<returned, apiVars>>

\* the alert ids a caller may pass: those of the alerts constructed so far
\* and one that is the id of no alert
AnyAlertIds == 1 .. Len(alerts) + 1

\* what a manager call that ends early gave its caller
Outcome(op, id, result) == [op |-> op, alert |-> id, result |-> result]

\* assign_agent that marks an alert ASSIGNED though the queue does not hold it
AssignAgentNotFoundRecords(id, agent) ==
  /\ id \notin byId
  /\ UNCHANGED apiVars
  /\ returned' = Outcome("assign_agent", id, "None")
  /\ alerts' = IF id \in AlertIds
               THEN [alerts EXCEPT ![id].status = "assigned",
                                   ![id].assigned_agent_id = agent]
               ELSE alerts
  /\ UNCHANGED <<conversations, nextSid, procs, queue, byId, byCallId,
                 active, completed, handlers, tasks, delivered, now, cbCalls>>

\* assign_agent(alert_id, agent_id) for an id that is not a key of _by_id:
\* queue.remove returns None and so does assign_agent
AssignAgentNotFound(id, agent) ==
  /\ id \notin byId
  /\ UNCHANGED apiVars
  /\ returned' = Outcome("assign_agent", id, "None")
  /\ UNCHANGED <<conversations, nextSid, procs, alerts, queue, byId, byCallId,
                 active, completed, handlers, tasks, delivered, now, cbCalls>>

\* start_handoff_call(alert_id) raises ValueError: "not found in active
\* handoffs" when no value of _active_handoffs has the id, "is not in assigned
\* state" when the alert found has another status
StartHandoffCallRaises(id) ==
  /\ ~(IsActive(id) /\ alerts[id].status = "assigned")
  /\ UNCHANGED apiVars
  /\ returned' = Outcome("start_handoff_call", id,
                         IF IsActive(id) THEN "not in assigned state"
                         ELSE "not found in active handoffs")
  /\ UNCHANGED <<conversations, nextSid, procs, alerts, queue, byId, byCallId,
                 active, completed, handlers, tasks, delivered, now, cbCalls>>

\* complete_handoff that appends to the completed log an alert it did not
\* find in _active_handoffs
CompleteHandoffNotFoundLogs(id) ==
  /\ ~IsActive(id)
  /\ UNCHANGED apiVars
  /\ returned' = Outcome("complete_handoff", id, "not found in active handoffs")
  /\ completed' = IF id \in AlertIds THEN Append(completed, id) ELSE completed
  /\ UNCHANGED <<conversations, nextSid, procs, alerts, queue, byId, byCallId,
                 active, handlers, tasks, delivered, now, cbCalls>>

\* complete_handoff(alert_id) when no value of _active_handoffs has the id:
\* a warning is logged and the call returns
CompleteHandoffNotFound(id) ==
  /\ ~IsActive(id)
  /\ UNCHANGED apiVars
  /\ returned' = Outcome("complete_handoff", id, "not found in active handoffs")
  /\ UNCHANGED <<conversations, nextSid, procs, alerts, queue, byId, byCallId,
                 active, completed, handlers, tasks, delivered, now, cbCalls>>

\* register_websocket_handler(handler): the append is seen by every loop
\* that is iterating _handlers
RegisterHandler ==
  /\ handlers < MaxHandlers
  /\ handlers' = handlers + 1
  /\ delivered' = Append(delivered, << >>)
  /\ tasks' = {[task EXCEPT !.grew = TRUE] : task \in tasks}
  /\ UNCHANGED <<conversations, nextSid, procs, alerts, queue, byId, byCallId,
                 active, completed, now, cbCalls>>
  /\ UNCHANGED <<returned, apiVars>>

\* _trigger_handoff after trigger_handoff has returned alert id to processor
\* p: the callback, when one was given, is called with the alert
AfterTrigger(pr, p, id) ==
  [pr EXCEPT ![p].pc = IF pr[p].has_callback THEN "callback" ELSE "idle"]

CallbackCalls(pr, p, id) ==
  IF pr[p].has_callback THEN Append(cbCalls, [proc |-> p, alert |-> id])
  ELSE cbCalls

\* a fan-out with no try/except around the call of the handler: the exception
\* of a handler leaves the loop and the manager call
NotifyNextRaiseAborts(task, raised) ==
  /\ task \in tasks
  /\ task.i < handlers
  /\ IF raised
     THEN /\ tasks' = tasks \ {task}
          /\ delivered' = delivered
     ELSE /\ tasks' = (tasks \ {task}) \cup {[task EXCEPT !.i = @ + 1]}
          /\ delivered' = Invoked(task.i + 1, task.kind, task.alert)
  /\ dashboards' = IF raised THEN dashboards ELSE Sent(task.kind, task.alert)
  /\ UNCHANGED <<conversations, nextSid, procs, alerts, queue, byId, byCallId,
                 active, completed, handlers, now, cbCalls>>
  /\ UNCHANGED <<returned, botVars>>

\* the handler a fan-out waits in returns, or raises and the exception is
\* caught and logged, and the loop calls the next handler of the list
NotifyNext(task, raised) ==
  /\ task \in tasks
  /\ task.i < handlers
  /\ tasks' = (tasks \ {task})
                 \cup {[task EXCEPT !.i = @ + 1, !.raised = @ \/ raised]}
  /\ delivered' = Invoked(task.i + 1, task.kind, task.alert)
  /\ dashboards' = Sent(task.kind, task.alert)
  /\ UNCHANGED <<conversations, nextSid, procs, alerts, queue, byId, byCallId,
                 active, completed, handlers, now, cbCalls>>
  /\ UNCHANGED <<returned, botVars>>

\* the last handler of the list returns or raises: the fan-out ends and the
\* manager call returns to its caller
NotifyReturn(task, raised) ==
  /\ task \in tasks
  /\ task.i >= handlers
  /\ tasks' = tasks \ {task}
  /\ IF task.proc # "none"
     THEN /\ procs' = AfterTrigger(procs, task.proc, task.alert)
          /\ cbCalls' = CallbackCalls(procs, task.proc, task.alert)
     ELSE UNCHANGED <<procs, cbCalls>>
  /\ UNCHANGED <<conversations, nextSid, alerts, queue, byId, byCallId,
                 active, completed, handlers, delivered, now>>
  /\ UNCHANGED <<returned, apiVars>>

(***************************************************************************)
(* ConversationTracker entry points (core/conversation_tracker.py) on the  *)
(* tracker's map; a call_id that is not a key leaves the map as it is.     *)
(***************************************************************************)
\* add_user_turn that starts a state for a call_id the tracker does not hold
TrackerAddUserTurnCreates(conv, c, text) ==
  IF conv[c].sid = 0
  THEN [conv EXCEPT ![c] =
          AddUserTurn(NewConversationState(1, c, "none", "none"), text, TRUE)]
  ELSE [conv EXCEPT ![c] = AddUserTurn(conv[c], text, TRUE)]

TrackerAddUserTurn(conv, c, text) ==
  IF conv[c].sid = 0 THEN conv
  ELSE [conv EXCEPT ![c] = AddUserTurn(conv[c], text, TRUE)]

TrackerAddAssistantTurn(conv, c, text) ==
  IF conv[c].sid = 0 THEN conv
  ELSE [conv EXCEPT ![c] = AddAssistantTurn(conv[c], text)]

TrackerRecordToolCall(conv, c, tool_name, success) ==
  IF conv[c].sid = 0 THEN conv
  ELSE [conv EXCEPT ![c] = RecordToolCall(conv[c], tool_name, success)]

\* create_conversation that replaces the state of a tracked call_id
TrackerCreateOverwrites(conv, c, sid, room_name, driver_info) ==
  [conv EXCEPT ![c] = NewConversationState(sid, c, room_name, driver_info)]

\* create_conversation(call_id, room_name, driver_info): the existing state is
\* kept
TrackerCreate(conv, c, sid, room_name, driver_info) ==
  IF conv[c].sid # 0 THEN conv
  ELSE [conv EXCEPT ![c] = NewConversationState(sid, c, room_name, driver_info)]

\* remove_conversation(call_id)
TrackerRemove(conv, c) == [conv EXCEPT ![c] = NoState]

\* bounds on the events the model delivers
TotalTurns ==
  Cardinality({<<c, n>> \in CallIds \X (1 .. MaxTotalTurns) :
                 HasConversation(c) /\ n <= conversations[c].turn_count})

TotalToolCalls ==
  Cardinality({<<c, n>> \in CallIds \X (1 .. MaxToolCalls) :
                 /\ HasConversation(c)
                 /\ n <= conversations[c].tool_success_count
                          + conversations[c].tool_failure_count})

(***************************************************************************)
(* ConversationTrackingProcessor (core/tracking_processor.py).             *)
(***************************************************************************)
\* the driver_info processor p is constructed with: a DriverInfo, or None
DriverOf(p) == IF p = "p1" THEN "driver1" ELSE "none"

\* __init__(call_id, room_name, driver_info, on_handoff_triggered):
\* create_conversation
\* returns the state the tracker already holds for the call_id, if any
CreateProcessor(p, c, cb) ==
  /\ ~procs[p].created
  /\ procs' = [procs EXCEPT ![p] =
                 [NoProc EXCEPT !.created = TRUE, !.call_id = c,
                                !.room_name = p, !.has_callback = cb,
                                !.state = IF HasConversation(c)
                                          THEN conversations[c].sid
                                          ELSE nextSid + 1]]
  /\ conversations' = TrackerCreate(conversations, c, nextSid + 1, p, DriverOf(p))
  /\ nextSid' = IF HasConversation(c) THEN nextSid ELSE nextSid + 1
  /\ UNCHANGED <<alerts, queue, byId, byCallId, active, completed, handlers,
                 tasks, delivered, now, cbCalls>>
  /\ UNCHANGED <<returned, apiVars>>

\* what _check_escalation does: nothing, an engine compute alone, or a compute
\* followed by _trigger_handoff
EscalationOutcome(pr, conv, p) ==
  LET c == pr[p].call_id
      r == ComputeConfidence(conv[c])
  IN IF pr[p].handoff_triggered \/ conv[c].sid = 0 THEN "skip"
     ELSE IF r.trigger # "none" /\ ShouldEscalate(r.state) THEN "trigger"
     ELSE "compute"

\* _check_escalation of processor p, run on the tracker map conv and the
\* processors pr that the handler before it has left
CheckEscalation(pr, conv, p) ==
  LET c == pr[p].call_id
      r == ComputeConfidence(conv[c])
      outcome == EscalationOutcome(pr, conv, p)
  IN CASE outcome = "skip" ->
            /\ conversations' = conv
            /\ procs' = pr
            /\ UNCHANGED <<alerts, queue, byId, byCallId, tasks, delivered, now,
                           cbCalls, dashboards>>
       [] outcome = "compute" ->
            /\ conversations' = [conv EXCEPT ![c] = r.state]
            /\ procs' = pr
            /\ UNCHANGED <<alerts, queue, byId, byCallId, tasks, delivered, now,
                           cbCalls, dashboards>>
       [] outcome = "trigger" ->
            /\ Len(alerts) < MaxAlerts
            /\ MayCall
            /\ \E t \in 0 .. MaxClock :
                 /\ ReadsClock(t)
                 /\ now' = t
                 /\ LET h == TriggerHandoffSync(r.state, r.trigger,
                                                GetPriority(r.state, r.trigger), t, p)
                        pr1 == [pr EXCEPT ![p].handoff_triggered = TRUE,
                                          ![p].pc = "trigger"]
                    IN /\ alerts' = h.alerts
                       /\ queue' = h.queue
                       /\ byId' = h.byId
                       /\ byCallId' = h.byCallId
                       /\ conversations' = [conv EXCEPT ![c] = h.state]
                       /\ delivered' = Emitted("new_alert", h.alert)
                       /\ dashboards' =
                            IF Suspends THEN Broadcast(h.alert) ELSE dashboards
                       /\ IF Suspends
                          THEN /\ tasks' = tasks \cup {Task("new_alert", h.alert, p)}
                               /\ procs' = pr1
                               /\ cbCalls' = cbCalls
                          ELSE /\ tasks' = tasks
                               /\ procs' = AfterTrigger(pr1, p, h.alert)
                               /\ cbCalls' = CallbackCalls(pr1, p, h.alert)

\* what a processor is left with after add_user_turn, add_assistant_turn or
\* record_tool_call for call_id c: None when the tracker does not hold c
TrackerReturned(op, c) ==
  IF conversations[c].sid = 0 THEN Outcome(op, 0, "None") ELSE returned

\* a constructed processor takes the next frame when it has returned from the
\* one before; an EndFrame is the last frame its pipeline delivers
Ready(p) == procs[p].created /\ procs[p].pc = "idle" /\ ~procs[p].ended

\* _handle_transcription(frame) with frame.text.strip() the text (0: empty)
HandleTranscription(p, text) ==
  /\ Ready(p)
  /\ IF text = 0
     THEN UNCHANGED <<conversations, procs, alerts, queue, byId, byCallId,
                      tasks, delivered, now, cbCalls, dashboards>>
     ELSE CheckEscalation(procs,
              TrackerAddUserTurn(conversations, procs[p].call_id, text), p)
  /\ UNCHANGED <<nextSid, active, completed, handlers>>
  /\ UNCHANGED botVars
  /\ returned' = IF text = 0 THEN returned
                 ELSE TrackerReturned("add_user_turn", procs[p].call_id)

\* a TranscriptionFrame, while the turns delivered are fewer than MaxTotalTurns
Transcription(p, text) ==
  /\ text # 0 => TotalTurns < MaxTotalTurns
  /\ HandleTranscription(p, text)

\* LLMFullResponseStartFrame
ResponseStart(p) ==
  /\ Ready(p)
  /\ TotalTurns < MaxTotalTurns
  /\ procs' = [procs EXCEPT ![p].in_response = TRUE,
                            ![p].current_response = FALSE]
  /\ UNCHANGED <<conversations, nextSid, alerts, queue, byId, byCallId, active,
                 completed, handlers, tasks, delivered, now, cbCalls>>
  /\ UNCHANGED <<returned, apiVars>>

\* TextFrame while in a response: the text is appended to the accumulator
\* (current_response is whether the accumulator is non-empty)
ResponseText(p) ==
  /\ Ready(p)
  /\ procs[p].in_response
  /\ procs' = [procs EXCEPT ![p].current_response = TRUE]
  /\ UNCHANGED <<conversations, nextSid, alerts, queue, byId, byCallId, active,
                 completed, handlers, tasks, delivered, now, cbCalls>>
  /\ UNCHANGED <<returned, apiVars>>

\* _handle_response_end
ResponseEnd(p) ==
  /\ Ready(p)
  /\ procs[p].current_response => TotalTurns < MaxTotalTurns
  /\ procs' = [procs EXCEPT ![p].in_response = FALSE,
                            ![p].current_response = FALSE]
  /\ conversations' =
       IF procs[p].current_response
       THEN TrackerAddAssistantTurn(conversations, procs[p].call_id, 0)
       ELSE conversations
  /\ UNCHANGED <<nextSid, alerts, queue, byId, byCallId, active, completed,
                 handlers, tasks, delivered, now, cbCalls>>
  /\ UNCHANGED apiVars
  /\ returned' = IF procs[p].current_response
                 THEN TrackerReturned("add_assistant_turn", procs[p].call_id)
                 ELSE returned

\* _handle_tool_call_start
HandleToolCallStart(p, tool_name) ==
  /\ Ready(p)
  /\ procs' = [procs EXCEPT ![p].current_tool_call = tool_name]
  /\ UNCHANGED <<conversations, nextSid, alerts, queue, byId, byCallId, active,
                 completed, handlers, tasks, delivered, now, cbCalls>>
  /\ UNCHANGED <<returned, apiVars>>

\* a FunctionCallInProgressFrame, while the tool calls recorded are fewer
\* than MaxToolCalls
ToolCallStart(p, tool_name) ==
  /\ TotalToolCalls < MaxToolCalls
  /\ HandleToolCallStart(p, tool_name)

\* _handle_tool_call_result(frame); success is
\* frame.result is not None and "error" not in str(frame.result).lower();
\* with no tool call remembered the handler returns at once
HandleToolCallResult(p, success) ==
  /\ Ready(p)
  /\ IF procs[p].current_tool_call = "none"
     THEN UNCHANGED <<conversations, procs, alerts, queue, byId, byCallId,
                      tasks, delivered, now, cbCalls, dashboards>>
     ELSE /\ LET conv1 == TrackerRecordToolCall(conversations, procs[p].call_id,
                                                procs[p].current_tool_call, success)
                 pr1 == [procs EXCEPT ![p].current_tool_call = "none"]
             IN IF success
                THEN /\ conversations' = conv1
                     /\ procs' = pr1
                     /\ UNCHANGED <<alerts, queue, byId, byCallId, tasks, delivered, now,
                                     cbCalls, dashboards>>
                ELSE CheckEscalation(pr1, conv1, p)
  /\ UNCHANGED <<nextSid, active, completed, handlers>>
  /\ UNCHANGED botVars
  /\ returned' = IF procs[p].current_tool_call = "none"
                 THEN Outcome("handle_tool_call_result", 0, "None")
                 ELSE TrackerReturned("record_tool_call", procs[p].call_id)

\* a FunctionCallResultFrame, while the tool calls recorded are fewer than
\* MaxToolCalls
ToolCallResult(p, success) ==
  /\ procs[p].current_tool_call # "none" => TotalToolCalls < MaxToolCalls
  /\ HandleToolCallResult(p, success)

\* _handle_conversation_end: remove_conversation(call_id)
EndCall(p) ==
  /\ Ready(p)
  /\ conversations' = TrackerRemove(conversations, procs[p].call_id)
  /\ procs' = [procs EXCEPT ![p].ended = TRUE]
  /\ UNCHANGED <<nextSid, alerts, queue, byId, byCallId, active,
                 completed, handlers, tasks, delivered, now, cbCalls>>
  /\ UNCHANGED <<returned, apiVars>>

\* the awaited on_handoff_triggered returns or raises; an exception is caught
\* and logged
CallbackReturn(p, raised) ==
  /\ procs[p].created
  /\ procs[p].pc = "callback"
  /\ procs' = [procs EXCEPT ![p].pc = "idle"]
  /\ UNCHANGED <<conversations, nextSid, alerts, queue, byId, byCallId, active,
                 completed, handlers, tasks, delivered, now, cbCalls>>
  /\ UNCHANGED <<returned, apiVars>>

(***************************************************************************)
(* Specifications.                                                         *)
(***************************************************************************)
ToolNames == {"get_swap_history"}

\* the state after the singletons are constructed and before any processor
Init ==
  /\ conversations = [c \in CallIds |-> NoState]
  /\ nextSid = 0
  /\ procs = [p \in ProcIds |-> NoProc]
  /\ alerts = << >>
  /\ queue = << >>
  /\ byId = {}
  /\ byCallId = [c \in CallIds |-> 0]
  /\ active = [c \in CallIds |-> 0]
  /\ completed = << >>
  /\ handlers = 0
  /\ tasks = {}
  /\ delivered = << >>
  /\ now = 0
  /\ cbCalls = << >>
  /\ returned = NoReturn
  /\ dashboards = [agent \in DashboardAgents |-> NoDashboard]
  /\ active_bots = [room_name \in BotRooms |-> 0]
  /\ instances = << >>
  /\ leaves = {}

\* the texts the pipeline specification delivers
PipelineTexts == {0, 1, 2, 3}

NotifierNext ==
  \/ RegisterHandler
  \/ \E task \in tasks, raised \in BOOLEAN : NotifyNext(task, raised)
  \/ \E task \in tasks, raised \in BOOLEAN : NotifyReturn(task, raised)

LifecycleNext ==
  \/ \E id \in AlertIds, agent \in AgentIds : AssignAgent(id, agent)
  \/ \E id \in AlertIds, tokenOk \in BOOLEAN : StartHandoffCall(id, tokenOk)
  \/ \E id \in AlertIds : CompleteHandoff(id)

\* one processor driven by every frame of its pipeline, with dashboards
\* connecting to the notifier
SoloProcs == {"p1"}

Next ==
  \/ \E p \in SoloProcs, c \in CallIds : CreateProcessor(p, c, TRUE)
  \/ \E p \in SoloProcs, text \in PipelineTexts : Transcription(p, text)
  \/ \E p \in SoloProcs : ResponseStart(p)
  \/ \E p \in SoloProcs : ResponseText(p)
  \/ \E p \in SoloProcs : ResponseEnd(p)
  \/ \E p \in SoloProcs, tool_name \in ToolNames : ToolCallStart(p, tool_name)
  \/ \E p \in SoloProcs, success \in BOOLEAN : ToolCallResult(p, success)
  \/ \E p \in SoloProcs : EndCall(p)
  \/ \E p \in SoloProcs, raised \in BOOLEAN : CallbackReturn(p, raised)
  \/ NotifierNext

Spec == Init /\ [][Next]_vars

\* several processors over the one tracker and the one manager, driven by
\* the transcriptions of their calls
PairNext ==
  \/ \E p \in ProcIds, c \in CallIds : CreateProcessor(p, c, TRUE)
  \/ \E p \in ProcIds, text \in PipelineTexts : Transcription(p, text)
  \/ \E p \in ProcIds : EndCall(p)
  \/ \E p \in ProcIds, raised \in BOOLEAN : CallbackReturn(p, raised)
  \/ NotifierNext

SpecPair == Init /\ [][PairNext]_vars

\* create_conversation called on the tracker
CreateConversation(c, room_name) ==
  /\ ~HasConversation(c)
  /\ conversations' = TrackerCreate(conversations, c, nextSid + 1, room_name, "none")
  /\ nextSid' = nextSid + 1
  /\ UNCHANGED <<procs, alerts, queue, byId, byCallId, active, completed,
                 handlers, tasks, delivered, now, cbCalls>>
  /\ UNCHANGED <<returned, apiVars>>

\* the manager called directly, every operation of it, on the state the
\* tracker holds for one call; no dashboard is connected, so that no call
\* suspends in the notifier
MgrCalls == {"c1"}
MgrPriorities == {"urgent", "high", "medium"}

MgrNext ==
  \/ \E c \in MgrCalls : CreateConversation(c, "room")
  \/ \E c \in MgrCalls, priority \in MgrPriorities :
        Len(alerts) < MaxAlerts /\ TriggerHandoff(c, "bot_stuck", priority)
  \/ LifecycleNext

SpecMgr == Init /\ [][MgrNext]_vars

\* the manager called directly on the states of several calls, the alerts
\* of one priority
CallsPriorities == {"medium"}

CallsNext ==
  \/ \E c \in CallIds : CreateConversation(c, "room")
  \/ \E c \in CallIds, priority \in CallsPriorities :
        Len(alerts) < MaxAlerts /\ TriggerHandoff(c, "bot_stuck", priority)
  \/ LifecycleNext

SpecCalls == Init /\ [][CallsNext]_vars

\* the manager called directly with any alert id, the calls that end early
\* included
OpsPriorities == {"medium"}

OpsNext ==
  \/ \E c \in MgrCalls : CreateConversation(c, "room")
  \/ \E c \in MgrCalls, priority \in OpsPriorities :
        Len(alerts) < MaxAlerts /\ TriggerHandoff(c, "bot_stuck", priority)
  \/ LifecycleNext
  \/ \E id \in AnyAlertIds, agent \in AgentIds : AssignAgentNotFound(id, agent)
  \/ \E id \in AnyAlertIds : StartHandoffCallRaises(id)
  \/ \E id \in AnyAlertIds : CompleteHandoffNotFound(id)

SpecOps == Init /\ [][OpsNext]_vars

\* the dashboards: handlers registered with the notifier while an agent
\* works on the alert of a call, every manager call a task of its own;
\* trigger_handoff is called as its contract asks, once for the state
DeskPriorities == {"medium"}

DeskTrigger ==
  \E c \in MgrCalls, priority \in DeskPriorities :
    /\ HasConversation(c)
    /\ ~conversations[c].escalation_triggered
    /\ TriggerHandoff(c, "bot_stuck", priority)

DeskNext ==
  \/ \E c \in MgrCalls : CreateConversation(c, "room")
  \/ DeskTrigger
  \/ \E id \in AlertIds, agent \in AgentIds : AssignAgent(id, agent)
  \/ \E id \in AlertIds, tokenOk \in BOOLEAN : StartHandoffCall(id, tokenOk)
  \/ \E id \in AlertIds : CompleteHandoff(id)
  \/ NotifierNext

SpecDesk == Init /\ [][DeskNext]_vars

\* several agents accept the alert on their dashboards (the "accept" message
\* of agent_dashboard_ws), each accept a task of its own
AcceptAgents == {"a1", "a2"}

AcceptNext ==
  \/ \E c \in MgrCalls : CreateConversation(c, "room")
  \/ DeskTrigger
  \/ \E id \in AlertIds, agent \in AcceptAgents : AssignAgent(id, agent)
  \/ \E id \in AlertIds, agent \in AcceptAgents : AssignAgentNotFound(id, agent)
  \/ NotifierNext

SpecAccept == Init /\ [][AcceptNext]_vars

\* the queue alone: enqueues and assignments of a longer queue
QueuePriorities == {"urgent", "high", "medium"}

QueueNext ==
  \/ \E c \in MgrCalls : CreateConversation(c, "room")
  \/ \E c \in MgrCalls, priority \in QueuePriorities :
        Len(alerts) < MaxQueueAlerts /\ TriggerHandoff(c, "bot_stuck", priority)
  \/ \E id \in AlertIds, agent \in AgentIds : AssignAgent(id, agent)

SpecQueue == Init /\ [][QueueNext]_vars

\* two processors constructed for one call_id, no dashboard connected: the
\* pipeline of the first delivers its EndFrame, which removes the state the
\* second, driven by every other frame, still reports to
LateTexts == {1, 3}
EndingProc == "p1"
LateProc == "p2"

LateNext ==
  \/ \E p \in ProcIds, c \in MgrCalls : CreateProcessor(p, c, FALSE)
  \/ EndCall(EndingProc)
  \/ \E text \in LateTexts : Transcription(LateProc, text)
  \/ ResponseStart(LateProc)
  \/ ResponseText(LateProc)
  \/ ResponseEnd(LateProc)
  \/ \E tool_name \in ToolNames : ToolCallStart(LateProc, tool_name)
  \/ \E success \in BOOLEAN : ToolCallResult(LateProc, success)

SpecLate == Init /\ [][LateNext]_vars

\* one longer call: a processor driven by up to MaxTalkTurns transcriptions
\* and MaxTalkToolCalls tool calls, no dashboard connected
TalkProc == "p1"
TalkCall == "c1"
TalkTexts == {1, 2, 3, 5, 6}

TalkTurns == conversations[TalkCall].turn_count
TalkToolCalls ==
  conversations[TalkCall].tool_success_count
    + conversations[TalkCall].tool_failure_count

TalkNext ==
  \/ CreateProcessor(TalkProc, TalkCall, TRUE)
  \/ \E text \in TalkTexts :
        /\ HasConversation(TalkCall) /\ TalkTurns < MaxTalkTurns
        /\ HandleTranscription(TalkProc, text)
  \/ \E tool_name \in ToolNames :
        /\ HasConversation(TalkCall) /\ TalkToolCalls < MaxTalkToolCalls
        /\ procs[TalkProc].current_tool_call = "none"
        /\ HandleToolCallStart(TalkProc, tool_name)
  \/ \E success \in BOOLEAN :
        /\ procs[TalkProc].current_tool_call # "none"
        /\ HandleToolCallResult(TalkProc, success)
  \/ \E raised \in BOOLEAN : CallbackReturn(TalkProc, raised)

SpecTalk == Init /\ [][TalkNext]_vars


(***************************************************************************)
(* The engine alone: compute_confidence applied to conversation states     *)
(* whose fields are drawn from the sets below.                             *)
(***************************************************************************)
EngineIntents == {"safety_concern", "harassment", "fraud_report", "escalation_request"}
EngineIntentLists ==
  {<< >>} \cup {<<i>> : i \in EngineIntents}
          \cup {<<i, j>> : i \in EngineIntents, j \in EngineIntents}
EngineRepeatCounts == {0, 2, 3}
EngineSentiments == {"positive", "neutral", "negative", "frustrated", "angry"}
EngineTrends == {"stable", "declining", "improving"}
EngineHistories == {<< >>, <<-5, -5, -5>>}
EngineCurrentIntents == {"other", "complaint"}
EngineIntentHistories == {<< >>, <<"escalation_request">>}
EngineToolCounts == {<<0, 0>>, <<1, 1>>, <<0, 2>>, <<1, 2>>}
EngineTurnCounts == {0, 8, 10, 11}

EngineTurns(n) == [i \in 1 .. n |-> [role |-> "assistant", content |-> 0]]

EngineInit ==
  /\ \E hr \in EngineIntentLists, rc \in EngineRepeatCounts,
        se \in EngineSentiments, tr \in EngineTrends, sh \in EngineHistories,
        ci \in EngineCurrentIntents, ih \in EngineIntentHistories,
        tc \in EngineToolCounts, n \in EngineTurnCounts :
       conversations =
         [c \in CallIds |->
            IF c = "c1"
            THEN [NewConversationState(1, "c1", "room", "none") EXCEPT
                    !.high_risk_intents_detected = hr, !.repeat_count = rc,
                    !.current_sentiment = se, !.sentiment_trend = tr,
                    !.sentiment_history = sh, !.current_intent = ci,
                    !.intent_history = ih, !.tool_success_count = tc[1],
                    !.tool_failure_count = tc[2], !.turn_count = n,
                    !.turns = EngineTurns(n)]
            ELSE NoState]
  /\ nextSid = 1
  /\ procs = [p \in ProcIds |-> NoProc]
  /\ alerts = << >>
  /\ queue = << >>
  /\ byId = {}
  /\ byCallId = [c \in CallIds |-> 0]
  /\ active = [c \in CallIds |-> 0]
  /\ completed = << >>
  /\ handlers = 0
  /\ tasks = {}
  /\ delivered = << >>
  /\ now = 0
  /\ cbCalls = << >>
  /\ returned = NoReturn
  /\ dashboards = [agent \in DashboardAgents |-> NoDashboard]
  /\ active_bots = [room_name \in BotRooms |-> 0]
  /\ instances = << >>
  /\ leaves = {}

\* compute_confidence(state) called on the state the tracker holds for call c
EngineCompute(c) ==
  /\ HasConversation(c)
  /\ LET r == ComputeConfidence(conversations[c])
     IN /\ conversations' = [conversations EXCEPT ![c] = r.state]
        /\ UNCHANGED apiVars
        /\ returned' = [confidence |-> r.confidence, factors |-> r.factors,
                        trigger |-> r.trigger]
  /\ UNCHANGED <<nextSid, procs, alerts, queue, byId, byCallId, active,
                 completed, handlers, tasks, delivered, now, cbCalls>>

EngineNext == \E c \in CallIds : EngineCompute(c)

SpecEngine == EngineInit /\ [][EngineNext]_vars

(***************************************************************************)
(* get_priority called on conversation states: the states of the engine    *)
(* above with at most one high-risk intent, no history and no turns,       *)
(* before and after a compute, with every member of HandoffTrigger.        *)
(***************************************************************************)
HandoffTriggers ==
  {"explicit_request", "high_frustration", "repeated_queries",
   "fraud_detection", "safety_emergency", "harassment_report",
   "tool_failures", "confidence_threshold", "bot_stuck", "long_conversation"}

PriorityInit ==
  /\ EngineInit
  /\ Len(conversations["c1"].high_risk_intents_detected) <= 1
  /\ conversations["c1"].sentiment_history = << >>
  /\ conversations["c1"].intent_history = << >>
  /\ conversations["c1"].turn_count = 0

\* get_priority(state, trigger) called on the state the tracker holds for
\* call c: it returns a priority and assigns nothing
GetPriorityCall(c, trigger) ==
  /\ HasConversation(c)
  /\ UNCHANGED apiVars
  /\ returned' = [op |-> "get_priority", trigger |-> trigger,
                  priority |-> GetPriority(conversations[c], trigger)]
  /\ UNCHANGED <<conversations, nextSid, procs, alerts, queue, byId, byCallId,
                 active, completed, handlers, tasks, delivered, now, cbCalls>>

PriorityNext ==
  \/ \E c \in MgrCalls : EngineCompute(c)
  \/ \E c \in MgrCalls, trigger \in HandoffTriggers : GetPriorityCall(c, trigger)

SpecPriority == PriorityInit /\ [][PriorityNext]_vars

(***************************************************************************)
(* The dashboards (api/handoff_routes.py): agents open and close the       *)
(* websocket of their dashboard while alerts are triggered on one call,    *)
(* each after the fan-out of the one before has ended.                     *)
(***************************************************************************)
\* agent_dashboard_ws up to its first send: connect() stores the websocket
\* under agent_id, and the route registers a handler of its own with the
\* notifier; an agent opens a dashboard when it has none open
DashboardConnect(agent) ==
  /\ ~dashboards[agent].connected
  /\ handlers < MaxHandlers
  /\ dashboards' = [dashboards EXCEPT ![agent] =
                      [connected |-> TRUE, new_alerts |-> << >>,
                       since |-> Len(alerts)]]
  /\ handlers' = handlers + 1
  /\ delivered' = Append(delivered, << >>)
  /\ tasks' = {[task EXCEPT !.grew = TRUE] : task \in tasks}
  /\ UNCHANGED <<conversations, nextSid, procs, alerts, queue, byId, byCallId,
                 active, completed, now, cbCalls, returned, botVars>>

\* WebSocketDisconnect in agent_dashboard_ws: disconnect(agent_id) deletes the
\* websocket from connections; the handler stays in _handlers
DashboardDisconnect(agent) ==
  /\ dashboards[agent].connected
  /\ dashboards' = [dashboards EXCEPT ![agent] = NoDashboard]
  /\ UNCHANGED <<conversations, nextSid, procs, alerts, queue, byId, byCallId,
                 active, completed, handlers, tasks, delivered, now, cbCalls,
                 returned, botVars>>

DashNext ==
  \/ \E c \in MgrCalls : CreateConversation(c, "room")
  \/ \E c \in MgrCalls, priority \in DeskPriorities :
        /\ Len(alerts) < MaxAlerts
        /\ tasks = {}
        /\ TriggerHandoff(c, "bot_stuck", priority)
  \/ \E agent \in DashboardAgents : DashboardConnect(agent)
  \/ \E agent \in DashboardAgents : DashboardDisconnect(agent)
  \/ \E task \in tasks, raised \in BOOLEAN : NotifyNext(task, raised)
  \/ \E task \in tasks, raised \in BOOLEAN : NotifyReturn(task, raised)

SpecDash == Init /\ [][DashNext]_vars

(***************************************************************************)
(* BotManager (bot/manager.py): join_room, leave_room and the task of      *)
(* _run_agent. The task of a BotInstance is "created" by create_task,      *)
(* "running" once _run_agent awaits agent.run(), "cancelled" between       *)
(* cancel() and the delivery of the CancelledError, and "done" at the end. *)
(***************************************************************************)
BotIds == 1 .. Len(instances)

WithoutRoom(room_name) == [active_bots EXCEPT ![room_name] = 0]

\* join_room(room_name, token, call_id): the instance registered for the
\* room is returned, or a new one is constructed, registered and given a
\* task, while fewer than MaxBots instances have been constructed
JoinRoom(room_name) ==
  /\ IF active_bots[room_name] # 0
     THEN /\ returned' = Outcome("join_room", active_bots[room_name], "existing")
          /\ UNCHANGED botVars
     ELSE /\ Len(instances) < MaxBots
          /\ instances' = Append(instances,
                 [room_name |-> room_name, state |-> "joining",
                  task |-> "created", started |-> FALSE])
          /\ active_bots' = [active_bots EXCEPT ![room_name] = Len(instances) + 1]
          /\ returned' = Outcome("join_room", Len(instances) + 1, "created")
          /\ UNCHANGED leaves
  /\ UNCHANGED <<conversations, nextSid, procs, alerts, queue, byId, byCallId,
                 active, completed, handlers, tasks, delivered, now, cbCalls,
                 dashboards>>

\* the event loop starts the task: _run_agent sets the state and awaits
\* agent.run()
RunAgentStart(b) ==
  /\ instances[b].task = "created"
  /\ instances' = [instances EXCEPT ![b].state = "active",
                                    ![b].task = "running",
                                    ![b].started = TRUE]
  /\ UNCHANGED <<conversations, nextSid, procs, alerts, queue, byId, byCallId,
                 active, completed, handlers, tasks, delivered, now, cbCalls,
                 returned, dashboards, active_bots, leaves>>

\* the end of _run_agent: agent.run() returns or raises, or the
\* CancelledError of cancel() arrives; the finally block marks the instance
\* stopped and deletes the entry of its room, whichever instance it holds. A
\* task cancelled before it started never runs _run_agent
RunAgentExit(b) ==
  /\ instances[b].task \in {"running", "cancelled"}
  /\ IF instances[b].started
     THEN /\ instances' = [instances EXCEPT ![b].state = "stopped",
                                            ![b].task = "done"]
          /\ active_bots' = WithoutRoom(instances[b].room_name)
     ELSE /\ instances' = [instances EXCEPT ![b].task = "done"]
          /\ UNCHANGED active_bots
  /\ UNCHANGED <<conversations, nextSid, procs, alerts, queue, byId, byCallId,
                 active, completed, handlers, tasks, delivered, now, cbCalls,
                 returned, dashboards, leaves>>

\* a leave_room call suspended at pc for the instance bot it found
Leave(room_name, bot, pc) == [room_name |-> room_name, bot |-> bot, pc |-> pc]

\* leave_room(room_name) up to its await of agent.stop()
LeaveRoom(room_name) ==
  /\ active_bots[room_name] # 0
  /\ instances' = [instances EXCEPT ![active_bots[room_name]].state = "leaving"]
  /\ leaves' = leaves \cup {Leave(room_name, active_bots[room_name], "stop")}
  /\ UNCHANGED <<conversations, nextSid, procs, alerts, queue, byId, byCallId,
                 active, completed, handlers, tasks, delivered, now, cbCalls,
                 returned, dashboards, active_bots>>

\* agent.stop() returns to leave_room: a task that is not done is cancelled
\* and awaited; with the task done the entry of the room is deleted
LeaveRoomStopped(leave) ==
  /\ leave \in leaves
  /\ leave.pc = "stop"
  /\ IF instances[leave.bot].task = "done"
     THEN /\ active_bots' = WithoutRoom(leave.room_name)
          /\ leaves' = leaves \ {leave}
          /\ UNCHANGED instances
     ELSE /\ instances' = [instances EXCEPT ![leave.bot].task =
                 IF instances[leave.bot].started THEN "cancelled" ELSE "done"]
          /\ leaves' = (leaves \ {leave})
                          \cup {Leave(leave.room_name, leave.bot, "task")}
          /\ UNCHANGED active_bots
  /\ UNCHANGED <<conversations, nextSid, procs, alerts, queue, byId, byCallId,
                 active, completed, handlers, tasks, delivered, now, cbCalls,
                 returned, dashboards>>

\* the awaited task is done: leave_room deletes the entry of the room
LeaveRoomDone(leave) ==
  /\ leave \in leaves
  /\ leave.pc = "task"
  /\ instances[leave.bot].task = "done"
  /\ active_bots' = WithoutRoom(leave.room_name)
  /\ leaves' = leaves \ {leave}
  /\ UNCHANGED <<conversations, nextSid, procs, alerts, queue, byId, byCallId,
                 active, completed, handlers, tasks, delivered, now, cbCalls,
                 returned, dashboards, instances>>

BotsNext ==
  \/ \E room_name \in BotRooms : JoinRoom(room_name)
  \/ \E b \in BotIds : RunAgentStart(b)
  \/ \E b \in BotIds : RunAgentExit(b)
  \/ \E room_name \in BotRooms : LeaveRoom(room_name)
  \/ \E leave \in leaves : LeaveRoomStopped(leave)
  \/ \E leave \in leaves : LeaveRoomDone(leave)

SpecBots == Init /\ [][BotsNext]_vars

(***************************************************************************)
(* The tracker and the engine called directly on one call: user turns with *)
(* and without analysis, assistant turns, tool calls and computes, in any  *)
(* order, up to MaxTalkTurns turns and MaxTalkToolCalls tool calls.        *)
(***************************************************************************)
TrackerTexts == {1, 5}

\* add_user_turn(call_id, content, analyze) on a call the tracker holds
UserTurn(c, text, analyze) ==
  /\ HasConversation(c)
  /\ conversations[c].turn_count < MaxTalkTurns
  /\ conversations' =
       [conversations EXCEPT ![c] = AddUserTurn(conversations[c], text, analyze)]
  /\ UNCHANGED <<nextSid, procs, alerts, queue, byId, byCallId, active,
                 completed, handlers, tasks, delivered, now, cbCalls, returned, apiVars>>

\* add_assistant_turn(call_id, content)
AssistantTurn(c) ==
  /\ HasConversation(c)
  /\ conversations[c].turn_count < MaxTalkTurns
  /\ conversations' = TrackerAddAssistantTurn(conversations, c, 0)
  /\ UNCHANGED <<nextSid, procs, alerts, queue, byId, byCallId, active,
                 completed, handlers, tasks, delivered, now, cbCalls, returned, apiVars>>

\* record_tool_call(call_id, tool_name, success)
ToolCall(c, tool_name, success) ==
  /\ HasConversation(c)
  /\ conversations[c].tool_success_count + conversations[c].tool_failure_count
       < MaxTalkToolCalls
  /\ conversations' = TrackerRecordToolCall(conversations, c, tool_name, success)
  /\ UNCHANGED <<nextSid, procs, alerts, queue, byId, byCallId, active,
                 completed, handlers, tasks, delivered, now, cbCalls, returned, apiVars>>

TrackerNext ==
  \/ \E c \in MgrCalls : CreateConversation(c, "room")
  \/ \E c \in MgrCalls, text \in TrackerTexts, analyze \in BOOLEAN :
        UserTurn(c, text, analyze)
  \/ \E c \in MgrCalls : AssistantTurn(c)
  \/ \E c \in MgrCalls, tool_name \in ToolNames, success \in BOOLEAN :
        ToolCall(c, tool_name, success)
  \/ \E c \in MgrCalls : EngineCompute(c)

SpecTracker == Init /\ [][TrackerNext]_vars

(***************************************************************************)
(* Properties of the manager (SpecMgr, SpecCalls, SpecQueue).              *)
(***************************************************************************)
QueuedAlerts == {id \in AlertIds : alerts[id].status = "queued"}

\* (priority rank, created_at) of alert a is not greater than that of alert b
KeyNotGreater(a, b) ==
  \/ PriorityOrder(alerts[a].priority) < PriorityOrder(alerts[b].priority)
  \/ /\ PriorityOrder(alerts[a].priority) = PriorityOrder(alerts[b].priority)
     /\ alerts[a].created_at <= alerts[b].created_at

\* the scenario of four enqueues MEDIUM, URGENT, HIGH, MEDIUM at times 0..3
\* on an empty queue, and the assignment of the URGENT one
ScenarioPriorities == <<"medium", "urgent", "high", "medium">>

RECURSIVE ScenarioEnqueue(_)
ScenarioEnqueue(n) ==
  IF n = 0
  THEN [queue |-> << >>, byId |-> {}, byCallId |-> [c \in CallIds |-> 0],
        alerts |-> << >>]
  ELSE LET r == ScenarioEnqueue(n - 1)
           a == NewAlert(n, NewConversationState(n, "c1", "room", "none"), "bot_stuck",
                         ScenarioPriorities[n], n - 1, "api")
       IN QueueAdd(Append(r.alerts, a), r.queue, r.byId, r.byCallId, n)

ScenarioPositions(al) == [i \in 1 .. Len(al) |-> al[i].queue_position]

\* C2: the N alerts that are QUEUED carry the queue positions 1..N, each once,
\* and a smaller position never has a greater (priority rank, created_at);
\* enqueuing MEDIUM, URGENT, HIGH, MEDIUM gives positions 3, 1, 2, 4 and
\* removing the URGENT one re-indexes the others to 2, 1, 3
QueuePositionsConsistent ==
  /\ {alerts[id].queue_position : id \in QueuedAlerts}
        = 1 .. Cardinality(QueuedAlerts)
  /\ \A a, b \in QueuedAlerts :
        alerts[a].queue_position < alerts[b].queue_position => KeyNotGreater(a, b)
  /\ \A i \in 1 .. Len(queue) :
        queue[i] \in QueuedAlerts /\ alerts[queue[i]].queue_position = i
  /\ Len(queue) = Cardinality(QueuedAlerts)
  /\ LET r == ScenarioEnqueue(4)
         d == QueueRemove(r.alerts, r.queue, r.byId, r.byCallId, 2)
     IN /\ ScenarioPositions(r.alerts) = <<3, 1, 2, 4>>
        /\ r.queue = <<2, 3, 1, 4>>
        /\ d.queue = <<3, 1, 4>>
        /\ [i \in {1, 3, 4} |-> d.alerts[i].queue_position]
             = [i \in {1, 3, 4} |-> CASE i = 3 -> 1 [] i = 1 -> 2 [] OTHER -> 3]

\* an URGENT alert enqueued after a MEDIUM one was assigned, and the MEDIUM
\* one, re-indexed, is the head of the queue
QueueReindexedAfterAssign ==
  /\ Len(alerts) = 2
  /\ alerts[1].priority = "medium" /\ alerts[1].status = "queued"
  /\ alerts[1].queue_position = 1
  /\ alerts[2].priority = "urgent" /\ alerts[2].status = "assigned"
  /\ alerts[2].created_at > alerts[1].created_at


\* C9: of two QUEUED alerts of equal priority, the one whose trigger_handoff
\* ran first (the smaller id) has the smaller queue_position, also when their
\* created_at are equal and after other alerts were enqueued and removed
EqualPriorityKeepsEnqueueOrder ==
  \A a, b \in QueuedAlerts :
    (a < b /\ alerts[a].priority = alerts[b].priority)
      => alerts[a].queue_position < alerts[b].queue_position

\* two QUEUED alerts of equal priority and equal created_at, after an alert
\* enqueued later than both went ahead of them and was removed by assign_agent
EqualKeysAfterRemoval ==
  /\ Len(alerts) = 3
  /\ alerts[1].status = "queued" /\ alerts[2].status = "queued"
  /\ alerts[1].priority = "medium" /\ alerts[2].priority = "medium"
  /\ alerts[1].created_at = alerts[2].created_at
  /\ alerts[3].priority = "urgent" /\ alerts[3].status = "assigned"
  /\ alerts[1].queue_position = 1 /\ alerts[2].queue_position = 2

StatusRank(status) ==
  CASE status = "queued" -> 0
    [] status = "assigned" -> 1
    [] status = "in_progress" -> 2
    [] status = "completed" -> 3
    [] OTHER -> 4

\* C4: in every step the status of every alert stays or moves forward along
\* QUEUED, ASSIGNED, IN_PROGRESS, COMPLETED, and an alert that is COMPLETED is
\* not changed in any field
StatusOnlyForward ==
  [][\A id \in AlertIds :
       /\ StatusRank(alerts'[id].status) >= StatusRank(alerts[id].status)
       /\ alerts[id].status = "completed" => alerts'[id] = alerts[id]]_vars

\* an alert went through every status and is COMPLETED while another alert of
\* the same call is in progress
CompletedAfterEveryStatus ==
  \E a, b \in AlertIds :
    /\ alerts[a].status = "completed"
    /\ alerts[a].assigned_at >= 0 /\ alerts[a].started_at >= 0
    /\ alerts[b].status = "in_progress"
    /\ alerts[b].call_id = alerts[a].call_id

OnlyAlertOfCall(id) ==
  \A other \in AlertIds : alerts[other].call_id = alerts[id].call_id => other = id

ImmediateIntents == {"safety_concern", "harassment", "fraud_report"}

CategoricalTrigger(intent) ==
  CASE intent = "safety_concern" -> "safety_emergency"
    [] intent = "harassment" -> "harassment_report"
    [] intent = "fraud_report" -> "fraud_detection"

ImmediateIntentsOf(state) ==
  {state.high_risk_intents_detected[i] :
     i \in 1 .. Len(state.high_risk_intents_detected)} \cap ImmediateIntents

\* C3: compute_confidence on a state whose high_risk_intents_detected holds
\* SAFETY_CONCERN, HARASSMENT or FRAUD_REPORT returns confidence 1.0, each of
\* the six factors 1.0 and the categorical trigger of such an intent of the
\* state, whatever the other fields are
ImmediateEscalationTotal ==
  \A c \in CallIds :
    (returned # NoReturn /\ HasConversation(c)
       /\ ImmediateIntentsOf(conversations[c]) # {})
      => /\ returned.confidence = ConfOne
         /\ DOMAIN returned.factors
              = {FactorNames[i] : i \in 1 .. Len(FactorNames)}
         /\ Cardinality(DOMAIN returned.factors) = 6
         /\ \A k \in DOMAIN returned.factors : returned.factors[k] = FactorOne
         /\ returned.trigger \in
              {CategoricalTrigger(i) : i \in ImmediateIntentsOf(conversations[c])}
         /\ conversations[c].escalation_confidence = ConfOne

\* a compute has returned for a state that holds HARASSMENT behind an
\* ESCALATION_REQUEST, with no repeat, neutral sentiment, no tool call, no turn
ImmediateOnQuietState ==
  /\ returned # NoReturn
  /\ conversations["c1"].high_risk_intents_detected
       = <<"escalation_request", "harassment">>
  /\ conversations["c1"].repeat_count = 0
  /\ conversations["c1"].current_sentiment = "neutral"
  /\ conversations["c1"].tool_failure_count = 0
  /\ conversations["c1"].turn_count = 0
  /\ returned.trigger = "harassment_report"


(***************************************************************************)
(* Properties of the processors (Spec, SpecPair).                          *)
(***************************************************************************)
AlertsOf(sid) == {a \in AlertIds : alerts[a].conversation_id = sid}

QueueMembers(q) == {q[i] : i \in 1 .. Len(q)}

\* processor p was constructed on the state the tracker holds for its call
AttachedToLive(p) ==
  /\ procs[p].created
  /\ HasConversation(procs[p].call_id)
  /\ procs[p].state = conversations[procs[p].call_id].sid

\* C1 as claimed: trigger_handoff is invoked at most once for a
\* ConversationState, so no two alerts carry the same conversation_id
AtMostOneAlertPerConversation ==
  \A a, b \in AlertIds :
    alerts[a].conversation_id = alerts[b].conversation_id => a = b

\* C5: a transcription that the NLU classifies SAFETY_CONCERN, handled by a
\* processor of a live conversation that has no alert, leaves
\* escalation_confidence 1.0 and an alert of the call in the queue with
\* trigger SAFETY_EMERGENCY and priority URGENT
SafetyConcernEscalatesAtOnce ==
  [][\A p \in ProcIds, text \in Texts :
       (/\ TextTable[text].kw = "safety_concern"
        /\ AttachedToLive(p)
        /\ AlertsOf(procs[p].state) = {}
        /\ Transcription(p, text))
       => /\ conversations'[procs[p].call_id].escalation_confidence = ConfOne
          /\ \E a \in QueueMembers(queue') :
               /\ alerts'[a].conversation_id = procs[p].state
               /\ alerts'[a].call_id = procs[p].call_id
               /\ alerts'[a].trigger = "safety_emergency"
               /\ alerts'[a].priority = "urgent"
               /\ alerts'[a].status = "queued"]_vars

\* an alert was created on the very first turn of a conversation, a
\* SAFETY_CONCERN, and again on a later turn of another conversation
SafetyAlertOnFirstTurn ==
  \E a, b \in AlertIds :
    /\ alerts[a].trigger = "safety_emergency"
    /\ Len(alerts[a].conversation_turns) = 1
    /\ alerts[b].trigger = "safety_emergency"
    /\ Len(alerts[b].conversation_turns) = 2
    /\ alerts[b].conversation_id # alerts[a].conversation_id

\* the state of call c holds one user turn, neutral, and nothing else
AfterOneNeutralTurn(c) ==
  /\ HasConversation(c)
  /\ Len(conversations[c].turns) = 1
  /\ conversations[c].turns[1].role = "user"
  /\ conversations[c].current_sentiment = "neutral"
  /\ conversations[c].repeat_count = 0
  /\ conversations[c].tool_calls_made = << >>
  /\ conversations[c].high_risk_intents_detected = << >>

ExplicitRequestTurn(p, text) ==
  /\ TextTable[text].kw = "escalation_request"
  /\ AttachedToLive(p)
  /\ AfterOneNeutralTurn(procs[p].call_id)
  /\ Transcription(p, text)

CallbackExactlyOncePerConversation ==
  /\ \A i \in 1 .. Len(cbCalls) : cbCalls[i].alert \in AlertIds
  /\ \A i, j \in 1 .. Len(cbCalls) :
        alerts[cbCalls[i].alert].conversation_id
          = alerts[cbCalls[j].alert].conversation_id => i = j
  /\ \A a \in AlertIds :
        (alerts[a].via \in ProcIds /\ procs[alerts[a].via].pc # "trigger")
          => \E i \in 1 .. Len(cbCalls) : cbCalls[i].alert = a

\* C8 as claimed: a step never creates an alert, nor emits new_alert, for a
\* state whose escalation_triggered was already true, and leaves the
\* escalation_trigger of such a state as it was
TriggerOnTriggeredStateRejected ==
  [][\A c \in CallIds :
       (HasConversation(c) /\ conversations[c].escalation_triggered)
       => /\ \A a \in 1 .. Len(alerts') :
               a > Len(alerts) => alerts'[a].conversation_id # conversations[c].sid
          /\ \A task \in tasks' \ tasks :
               task.kind = "new_alert"
                 => alerts'[task.alert].conversation_id # conversations[c].sid
          /\ conversations'[c].sid = conversations[c].sid
               => conversations'[c].escalation_trigger
                    = conversations[c].escalation_trigger]_vars


(***************************************************************************)
(* Properties of the manager calls that end early (SpecOps).               *)
(***************************************************************************)
\* C11: started_at of an alert is written, and its status becomes
\* IN_PROGRESS, only in a step that finds it ASSIGNED; for an id of no alert
\* or of an alert in another status no step is a start_handoff_call that
\* goes through, and the call that raises leaves every alert, the fan-outs
\* and the deliveries as they were
StartOnlyWhenAssigned ==
  [][\A id \in AnyAlertIds :
       /\ (id \in AlertIds /\ alerts'[id].started_at # alerts[id].started_at)
            => alerts[id].status = "assigned"
       /\ (id \in AlertIds /\ alerts'[id].status = "in_progress")
            => alerts[id].status \in {"assigned", "in_progress"}
       /\ (id \notin AlertIds \/ alerts[id].status # "assigned")
            => /\ ~StartHandoffCall(id, TRUE)
               /\ ~StartHandoffCall(id, FALSE)
               /\ StartHandoffCallRaises(id)
                    => /\ alerts' = alerts
                       /\ tasks' = tasks
                       /\ delivered' = delivered
                       /\ returned'.op = "start_handoff_call"]_vars

\* start_handoff_call was called for an alert that was IN_PROGRESS already
\* and raised, and the alert is as the first call left it
StartRejectedInProgress ==
  \E id \in AlertIds :
    /\ returned = Outcome("start_handoff_call", id, "not in assigned state")
    /\ alerts[id].status = "in_progress"

\* C12 as claimed: a start_handoff_call whose token minting fails leaves the
\* alert as it was before the call (ASSIGNED, started_at unset) and emits no
\* event
TokenFailureLeavesAlert ==
  [][\A id \in AlertIds :
       StartHandoffCall(id, FALSE)
         => /\ alerts'[id] = alerts[id]
            /\ tasks' = tasks
            /\ delivered' = delivered]_vars

\* C13 as claimed: complete_handoff called for an alert that is QUEUED,
\* ASSIGNED or IN_PROGRESS leaves it COMPLETED with completed_at set, in the
\* completed log, and neither in the queue nor in the active index
CompleteFromAnyStatus ==
  [][\A id \in AlertIds :
       (/\ alerts[id].status \in {"queued", "assigned", "in_progress"}
        /\ (CompleteHandoff(id) \/ CompleteHandoffNotFound(id)))
         => /\ alerts'[id].status = "completed"
            /\ alerts'[id].completed_at >= 0
            /\ InSeq(id, completed')
            /\ ~InSeq(id, queue')
            /\ \A c \in CallIds : active'[c] # id]_vars

\* C15: for an alert id the queue does not hold (of no alert, or of an
\* alert assigned or completed before) no step is an assign_agent that goes
\* through, and the call returns None and leaves the queue, its indices, the
\* positions and every other field of every alert, the active index, the
\* completed log, the fan-outs and the deliveries as they were
AssignNotFoundChangesNothing ==
  [][\A id \in AnyAlertIds, agent \in AgentIds :
       id \notin byId
         => /\ ~AssignAgent(id, agent)
            /\ AssignAgentNotFound(id, agent)
                 => /\ returned' = Outcome("assign_agent", id, "None")
                    /\ alerts' = alerts
                    /\ queue' = queue /\ byId' = byId /\ byCallId' = byCallId
                    /\ active' = active /\ completed' = completed
                    /\ tasks' = tasks /\ delivered' = delivered]_vars

\* assign_agent returned None for an alert that is ASSIGNED, while another
\* alert is the head of the queue
AssignRejectedForAssigned ==
  \E id, other \in AlertIds :
    /\ returned = Outcome("assign_agent", id, "None")
    /\ alerts[id].status = "assigned"
    /\ alerts[other].status = "queued" /\ queue = <<other>>

\* C16: for an id of no alert or of a COMPLETED alert no step is a
\* complete_handoff that goes through, and the call leaves the queue, the
\* active index, the completed log, every alert, the fan-outs and the
\* deliveries as they were; no alert is in the completed log twice
CompleteTwiceIsNoOp ==
  [][/\ \A id \in AnyAlertIds :
          (id \notin AlertIds \/ alerts[id].status = "completed")
            => /\ ~CompleteHandoff(id)
               /\ CompleteHandoffNotFound(id)
                    => /\ alerts' = alerts
                       /\ queue' = queue /\ byId' = byId /\ byCallId' = byCallId
                       /\ active' = active /\ completed' = completed
                       /\ tasks' = tasks /\ delivered' = delivered
     /\ \A i, j \in 1 .. Len(completed') :
          completed'[i] = completed'[j] => i = j]_vars

\* complete_handoff was called again for an alert that is COMPLETED, and the
\* completed log holds the alert once
CompletedCalledAgain ==
  \E id \in AlertIds :
    /\ returned = Outcome("complete_handoff", id, "not found in active handoffs")
    /\ alerts[id].status = "completed"
    /\ completed = <<id>>

(***************************************************************************)
(* Properties of the dashboards (SpecAccept, SpecDesk).                    *)
(***************************************************************************)
\* C14: assigned_agent_id and assigned_at of an alert are written only in a
\* step that finds the alert QUEUED with neither set; of the assign_agent
\* calls for an alert the one that finds it in the queue goes through, and
\* every call after that, by any agent, returns None and changes no alert,
\* nor the active index, nor starts a fan-out
AssignedToOneAgent ==
  [][\A id \in AlertIds :
       /\ (\/ alerts'[id].assigned_agent_id # alerts[id].assigned_agent_id
           \/ alerts'[id].assigned_at # alerts[id].assigned_at)
            => /\ alerts[id].status = "queued"
               /\ alerts[id].assigned_agent_id = "none"
               /\ alerts[id].assigned_at = -1
       /\ \A agent \in AcceptAgents :
            /\ id \in byId => ~AssignAgentNotFound(id, agent)
            /\ id \notin byId
                 => /\ ~AssignAgent(id, agent)
                    /\ AssignAgentNotFound(id, agent)
                         => /\ alerts' = alerts
                            /\ active' = active
                            /\ tasks' = tasks
                            /\ delivered' = delivered]_vars

\* agent a1 was assigned, and while the fan-out of "assigned" is suspended in
\* a handler another accept of the same alert returned None
AcceptRejectedWhileSuspended ==
  \E id \in AlertIds :
    /\ alerts[id].assigned_agent_id = "a1"
    /\ returned = Outcome("assign_agent", id, "None")
    /\ \E task \in tasks : task.kind = "assigned" /\ task.alert = id

\* the status an alert has at least once the event was emitted
EventRank(kind) ==
  CASE kind = "new_alert" -> 0
    [] kind = "assigned" -> 1
    [] kind = "started" -> 2
    [] OTHER -> 3

\* the fan-out of the event of task is over in the step
FanoutEnds(task) ==
  /\ task \in tasks
  /\ ~\E next \in tasks' : next.kind = task.kind /\ next.alert = task.alert

\* C17: when the handler a fan-out waits in raises, the loop calls the next
\* handler with the event; and when a fan-out ends, whether or not a handler
\* of it has raised, every registered handler has been called with its
\* event, and the change the manager call made to its alert stands
FanoutSurvivesRaise ==
  [][\A task \in tasks :
       /\ NotifyNext(task, TRUE)
            => /\ \E next \in tasks' :
                    /\ next.kind = task.kind /\ next.alert = task.alert
                    /\ next.i = task.i + 1 /\ next.raised
               /\ InSeq(Event(task.kind, task.alert), delivered'[task.i + 1])
       /\ FanoutEnds(task)
            => /\ \A h \in 1 .. handlers :
                    InSeq(Event(task.kind, task.alert), delivered'[h])
               /\ alerts' = alerts
               /\ StatusRank(alerts[task.alert].status) >= EventRank(task.kind)]_vars

\* the first handler raised in the fan-out of "assigned", the second handler
\* has been called with the event, and the alert is ASSIGNED
RaisedAndNextCalled ==
  \E task \in tasks :
    /\ task.kind = "assigned" /\ task.raised /\ task.i = 2
    /\ InSeq(Event("assigned", task.alert), delivered[2])
    /\ alerts[task.alert].status = "assigned"

\* the events of alert id that handler h has been called with, in the order
\* of the calls
EventsOf(h, id) == SelectSeq(delivered[h], LAMBDA event : event.alert = id)

\* C18: every handler is called with the events of an alert in the order the
\* manager emitted them: new_alert, then "assigned", then "started", then
\* "completed"
DeliveredInEmittedOrder ==
  \A h \in 1 .. Len(delivered), id \in AlertIds :
    \A k \in 1 .. Len(EventsOf(h, id)) - 1 :
      EventRank(EventsOf(h, id)[k].kind) < EventRank(EventsOf(h, id)[k + 1].kind)

\* C19: a fan-out calls only the handlers that were in _handlers when it
\* began: no fan-out during which a handler was registered reaches the end
\* of the list, where that handler is
FanoutCallsOnlyEarlierHandlers ==
  \A task \in tasks : task.grew => task.i < handlers

(***************************************************************************)
(* Properties of the repetition count (Spec).                              *)
(***************************************************************************)
\* the step appends a user turn to the state, and the NLU flags it as a repeat
FlaggedUserTurn(old, new) ==
  /\ Len(new.turns) = Len(old.turns) + 1
  /\ new.turns[Len(new.turns)].role = "user"
  /\ CheckRepetition(old, new.turns[Len(new.turns)].content)

\* the turns of the state are k >= 1 user turns of one text
SameUtterances(state) ==
  /\ state.turns # << >>
  /\ \A i \in 1 .. Len(state.turns) :
       /\ state.turns[i].role = "user"
       /\ state.turns[i].content = state.turns[1].content

\* C20: a user turn that the NLU flags as a repeat adds exactly 1 to
\* repeat_count and every other step leaves it unchanged, so after k
\* identical utterances repeat_count is k - 1, and the repetition factor
\* after the third is 0.6
RepeatCountedOnce ==
  [][\A c \in CallIds :
       (HasConversation(c) /\ conversations'[c].sid = conversations[c].sid)
         => /\ conversations'[c].repeat_count =
                 conversations[c].repeat_count
                   + (IF FlaggedUserTurn(conversations[c], conversations'[c])
                      THEN 1 ELSE 0)
            /\ SameUtterances(conversations'[c])
                 => /\ conversations'[c].repeat_count
                         = Len(conversations'[c].turns) - 1
                    /\ Len(conversations'[c].turns) = 3
                         => CalcRepetitionFactor(conversations'[c])
                              = (6 * FactorOne) \div 10]_vars

(***************************************************************************)
(* Properties of one longer call (SpecTalk).                               *)
(***************************************************************************)
\* the text matches no intent keyword and no sentiment keyword
PlainText(text) ==
  /\ TextTable[text].kw = "other"
  /\ TextTable[text].neg = 0 /\ TextTable[text].pos = 0

\* the call so far is k identical plain user utterances and no tool call
RepetitionStack(k) ==
  /\ HasConversation(TalkCall)
  /\ SameUtterances(conversations[TalkCall])
  /\ Len(conversations[TalkCall].turns) = k
  /\ PlainText(conversations[TalkCall].turns[1].content)
  /\ TalkToolCalls = 0

\* the factors with only factor k not 0
OnlyFactor(k, value) ==
  [n \in {FactorNames[i] : i \in 1 .. Len(FactorNames)} |->
     IF n = k THEN value ELSE 0]

SecondFailureStep ==
  /\ procs[TalkProc].current_tool_call # "none"
  /\ HandleToolCallResult(TalkProc, FALSE)
  /\ Len(conversations'[TalkCall].turns) = 2
  /\ \A i \in 1 .. 2 : conversations'[TalkCall].turns[i].role = "user"
  /\ InSeq("complaint", conversations'[TalkCall].intent_history)
  /\ conversations'[TalkCall].tool_failure_count = 2
  /\ conversations'[TalkCall].tool_success_count = 0

\* C22 as claimed: the check after the second failure computes confidence
\* >= 0.75 and creates an alert with trigger TOOL_FAILURES and priority
\* MEDIUM
ToolFailureCascadeEscalates ==
  [][SecondFailureStep =>
       /\ conversations'[TalkCall].escalation_confidence >= AutoEscalateThreshold
       /\ Len(alerts') = Len(alerts) + 1
       /\ alerts'[Len(alerts')].trigger = "tool_failures"
       /\ alerts'[Len(alerts')].priority = "medium"]_vars

\* C22, amended: the check after the second failure creates no alert; when
\* no handoff was triggered earlier in the call it computes the tool_failures
\* factor 1.0 and a confidence below 0.75
ToolFailureCascadeBelowThreshold ==
  [][SecondFailureStep =>
       /\ alerts' = alerts
       /\ ~procs[TalkProc].handoff_triggered =>
            /\ conversations'[TalkCall].escalation_factors.tool_failures = FactorOne
            /\ conversations'[TalkCall].escalation_confidence < AutoEscalateThreshold
            /\ ~conversations'[TalkCall].escalation_triggered]_vars

\* two user turns, one a COMPLAINT, two failed tool results, and the check
\* has run on them without a handoff
ToolFailureCascadeChecked ==
  /\ HasConversation(TalkCall)
  /\ conversations[TalkCall].turn_count = 2
  /\ InSeq("complaint", conversations[TalkCall].intent_history)
  /\ conversations[TalkCall].tool_failure_count = 2
  /\ conversations[TalkCall].tool_success_count = 0
  /\ ~procs[TalkProc].handoff_triggered
  /\ procs[TalkProc].current_tool_call = "none"
  /\ conversations[TalkCall].escalation_factors
       = [conversations[TalkCall].escalation_factors EXCEPT
            !.tool_failures = FactorOne]
  /\ conversations[TalkCall].escalation_confidence > 0

\* the fields of an alert that are taken from the conversation state
Snapshot(alert) ==
  [ conversation_turns |-> alert.conversation_turns,
    actions_taken_by_bot |-> alert.actions_taken_by_bot,
    intent_history |-> alert.intent_history,
    sentiment |-> alert.sentiment,
    driver_info |-> alert.driver_info ]

\* C23: an alert is created with the turns, actions, intent history,
\* sentiment and driver info its conversation state has at that moment, and
\* no later step changes these fields of the alert, whatever it does to the
\* conversation state
AlertIsSnapshot ==
  [][/\ \A id \in AlertIds : Snapshot(alerts'[id]) = Snapshot(alerts[id])
     /\ Len(alerts') > Len(alerts) =>
          Snapshot(alerts'[Len(alerts')]) =
            [ conversation_turns |-> conversations'[TalkCall].turns,
              actions_taken_by_bot |-> conversations'[TalkCall].actions_taken,
              intent_history |-> conversations'[TalkCall].intent_history,
              sentiment |-> conversations'[TalkCall].current_sentiment,
              driver_info |-> conversations'[TalkCall].driver_info ]]_vars

\* the conversation has gone on after its alert: more turns, more recorded
\* tool calls, more intents and another sentiment than the alert holds
StateEvolvedAfterAlert ==
  \E id \in AlertIds :
    LET state == conversations[TalkCall]
    IN /\ HasConversation(TalkCall)
       /\ alerts[id].conversation_id = state.sid
       /\ Len(state.turns) > Len(alerts[id].conversation_turns)
       /\ Len(state.actions_taken) > Len(alerts[id].actions_taken_by_bot)
       /\ Len(state.intent_history) > Len(alerts[id].intent_history)
       /\ state.current_sentiment # alerts[id].sentiment

(***************************************************************************)
(* Properties of the tracker's map (SpecMgr, SpecPair, Spec).              *)
(***************************************************************************)
\* C24: once complete_handoff has completed an alert of call c, the tracker
\* holds no conversation state for c
CompleteRemovesConversation ==
  [][\A id \in AlertIds :
       CompleteHandoff(id) => ~HasConversation(alerts[id].call_id)']_vars

\* C25: create_conversation for a call_id the tracker holds returns the
\* state it holds and changes no field of it, nor any other state, whatever
\* room_name and driver_info it is given
CreateIsIdempotent ==
  [][\A p \in ProcIds, c \in CallIds :
       (HasConversation(c) /\ CreateProcessor(p, c, TRUE))
         => /\ conversations' = conversations
            /\ nextSid' = nextSid
            /\ procs'[p].state = conversations[c].sid]_vars

\* the second processor was constructed with another room_name and no
\* driver_info for a call that is tracked with turns, and holds its state
SecondCreateOnTrackedCall ==
  \E c \in CallIds :
    /\ HasConversation(c)
    /\ procs["p1"].created /\ procs["p1"].call_id = c
    /\ procs["p2"].created /\ procs["p2"].call_id = c
    /\ procs["p2"].state = conversations[c].sid
    /\ conversations[c].room_name = "p1"
    /\ conversations[c].driver_info = "driver1"
    /\ conversations[c].turns # << >>

\* the step is processor p reporting a user turn, an assistant turn or a
\* tool result for a call_id the tracker does not hold
UnknownCallFrame(p) ==
  /\ procs[p].created
  /\ ~HasConversation(procs[p].call_id)
  /\ \/ \E text \in LateTexts : Transcription(p, text)
     \/ procs[p].current_response /\ ResponseEnd(p)
     \/ /\ procs[p].current_tool_call # "none"
        /\ \E success \in BOOLEAN : ToolCallResult(p, success)

\* C26: add_user_turn, add_assistant_turn and record_tool_call for a
\* call_id the tracker does not hold return None and leave every tracked
\* state, the queue and the manager's indices unchanged, so that a frame
\* after end-of-call creates no turn and no alert
UnknownCallChangesNothing ==
  [][UnknownCallFrame(LateProc) =>
       /\ conversations' = conversations
       /\ alerts' = alerts
       /\ queue' = queue
       /\ byId' = byId /\ byCallId' = byCallId
       /\ active' = active /\ completed' = completed
       /\ returned'.result = "None"]_vars

\* after the EndFrame of the first processor the second has reported a
\* user turn for the removed call, and has text accumulated for a response
FrameAfterEndOfCall ==
  /\ procs[EndingProc].ended
  /\ procs[LateProc].created
  /\ procs[LateProc].call_id = procs[EndingProc].call_id
  /\ ~HasConversation(procs[LateProc].call_id)
  /\ returned = Outcome("add_user_turn", 0, "None")
  /\ procs[LateProc].current_response

(***************************************************************************)
(* Properties of the conversation state (SpecTracker, SpecEngine).         *)
(***************************************************************************)
\* C27: in every tracked conversation state turn_count is the number of
\* entries of turns
TurnCountMatchesTurns ==
  \A c \in CallIds :
    HasConversation(c) =>
      conversations[c].turn_count = Len(conversations[c].turns)

\* a state after an analysed user turn, a user turn without analysis, an
\* assistant turn and a recorded tool call
EveryKindOfTurnAdded ==
  \E c \in CallIds :
    /\ HasConversation(c)
    /\ conversations[c].intent_history # << >>
    /\ Len(conversations[c].query_history) > Len(conversations[c].intent_history)
    /\ \E i \in 1 .. Len(conversations[c].turns) :
         conversations[c].turns[i].role = "assistant"
    /\ conversations[c].tool_calls_made # << >>
    /\ conversations[c].turn_count >= 3

\* C28: from one state of a conversation to the next, repeat_count,
\* tool_success_count, tool_failure_count and turn_count never decrease
CountersNeverDecrease ==
  [][\A c \in CallIds :
       (HasConversation(c) /\ conversations'[c].sid = conversations[c].sid)
         => /\ conversations'[c].repeat_count >= conversations[c].repeat_count
            /\ conversations'[c].tool_success_count
                 >= conversations[c].tool_success_count
            /\ conversations'[c].tool_failure_count
                 >= conversations[c].tool_failure_count
            /\ conversations'[c].turn_count >= conversations[c].turn_count]_vars

\* every counter has been raised, a failure before a success, and the
\* engine has computed on the state
EveryCounterRaised ==
  \E c \in CallIds :
    /\ HasConversation(c)
    /\ conversations[c].repeat_count > 0
    /\ conversations[c].tool_success_count > 0
    /\ conversations[c].tool_failure_count > 0
    /\ conversations[c].actions_taken[1].success = FALSE
    /\ conversations[c].escalation_confidence > 0

\* C29: compute_confidence returns a confidence in [0,1] and six factors
\* each in [0,1], and stores exactly these in escalation_confidence and
\* escalation_factors; the six weights sum to 1
ConfidenceAndFactorsInRange ==
  \A c \in CallIds :
    (returned # NoReturn /\ HasConversation(c))
      => /\ returned.confidence \in 0 .. ConfOne
         /\ DOMAIN returned.factors
              = {FactorNames[i] : i \in 1 .. Len(FactorNames)}
         /\ Cardinality(DOMAIN returned.factors) = 6
         /\ \A k \in DOMAIN returned.factors :
              returned.factors[k] \in 0 .. FactorOne
         /\ conversations[c].escalation_confidence = returned.confidence
         /\ conversations[c].escalation_factors = returned.factors
         /\ SumSeq([i \in 1 .. Len(FactorNames) |-> WeightOf(FactorNames[i])])
              = 100

\* a compute without an immediate-escalation intent has returned the
\* greatest confidence: every factor is 1.0 and the weighted sum is 1.0
FullConfidenceFromWeights ==
  /\ returned # NoReturn
  /\ ImmediateIntentsOf(conversations["c1"]) = {}
  /\ returned.confidence = ConfOne
  /\ \A k \in DOMAIN returned.factors : returned.factors[k] = FactorOne

(***************************************************************************)
(* Properties of the wait estimate (SpecMgr).                              *)
(***************************************************************************)
\* C30: trigger_handoff sets the new alert's estimated_wait_seconds to 60
\* times the queue position the alert received at enqueue, and no later
\* operation changes the value, whatever becomes of queue_position
WaitEstimateIsOneShot ==
  [][/\ \A id \in 1 .. Len(alerts) :
          alerts'[id].estimated_wait_seconds
            = alerts[id].estimated_wait_seconds
      /\ \A new \in (Len(alerts) + 1) .. Len(alerts') :
          /\ InSeq(new, queue')
          /\ alerts'[new].queue_position = IndexOf(queue', new)
          /\ alerts'[new].estimated_wait_seconds
               = WaitTimePerPosition * IndexOf(queue', new)]_vars

\* an alert enqueued at position 2 was moved to position 1 by the assignment
\* of the alert ahead of it and has been assigned itself, and the alert that
\* was ahead has completed: the estimates of both are those of their enqueue
WaitEstimateOutlivesPosition ==
  \E id, other \in 1 .. Len(alerts) :
    /\ alerts[id].queue_position = 1
    /\ alerts[id].estimated_wait_seconds = 2 * WaitTimePerPosition
    /\ alerts[id].status # "queued"
    /\ alerts[other].status = "completed"
    /\ alerts[other].estimated_wait_seconds = WaitTimePerPosition

(***************************************************************************)
(* Properties of get_priority (SpecPriority).                              *)
(***************************************************************************)
\* C31: get_priority depends only on the trigger and current_sentiment:
\* URGENT for SAFETY_EMERGENCY, HARASSMENT_REPORT and FRAUD_DETECTION, HIGH
\* for EXPLICIT_REQUEST, HIGH for HIGH_FRUSTRATION when the sentiment is angry
\* and MEDIUM otherwise, MEDIUM for REPEATED_QUERIES and TOOL_FAILURES, LOW
\* for every other trigger; and it modifies no state
PriorityOfTriggerAndSentiment ==
  [][\A c \in CallIds, trigger \in HandoffTriggers :
       GetPriorityCall(c, trigger)
       => /\ returned'.priority =
               CASE trigger \in {"safety_emergency", "harassment_report",
                                 "fraud_detection"} -> "urgent"
                 [] trigger = "explicit_request" -> "high"
                 [] trigger = "high_frustration"
                      /\ conversations[c].current_sentiment = "angry" -> "high"
                 [] trigger = "high_frustration"
                      /\ conversations[c].current_sentiment # "angry" -> "medium"
                 [] trigger \in {"repeated_queries", "tool_failures"} -> "medium"
                 [] OTHER -> "low"
          /\ conversations' = conversations
          /\ <<alerts, queue, byId, byCallId, active, completed>>'
               = <<alerts, queue, byId, byCallId, active, completed>>]_vars

\* get_priority has ranked HIGH_FRUSTRATION for a state that is not angry
\* and that a compute has left at full confidence
FrustrationRankedForCalmState ==
  /\ "priority" \in DOMAIN returned
  /\ returned.trigger = "high_frustration"
  /\ returned.priority = "medium"
  /\ conversations["c1"].current_sentiment = "frustrated"
  /\ conversations["c1"].escalation_confidence = ConfOne

(***************************************************************************)
(* Properties of the processor's handlers (Spec).                          *)
(***************************************************************************)
\* the call of processor p is live and no alert of it exists
LiveWithoutAlert(p) ==
  /\ procs[p].created
  /\ HasConversation(procs[p].call_id)
  /\ \A id \in AlertIds : alerts[id].call_id # procs[p].call_id

\* after the step the state of p's call holds the result of a compute on it,
\* and an alert of the call exists iff that confidence is at least 0.75
CheckedAndDecided(p) ==
  LET c == procs[p].call_id
      state == conversations'[c]
      r == ComputeConfidence(state)
  IN /\ state.sid # 0
     /\ state.escalation_confidence = r.confidence
     /\ state.escalation_factors = r.factors
     /\ (\E id \in 1 .. Len(alerts') : alerts'[id].call_id = c)
          <=> state.escalation_confidence >= AutoEscalateThreshold

\* C32 as claimed: for a live conversation without alert the processor runs
\* an escalation check after every non-empty transcription and every failed
\* tool result, and an alert of the call exists afterwards iff the confidence
\* of that check is at least 0.75; successful tool results, responses and
\* empty transcriptions create no alert
EscalationCheckedAfterEveryEvent ==
  [][\A p \in ProcIds :
       LiveWithoutAlert(p)
       => /\ (\E text \in Texts : Transcription(p, text)) => CheckedAndDecided(p)
          /\ ToolCallResult(p, FALSE) => CheckedAndDecided(p)
          /\ ( \/ ToolCallResult(p, TRUE) /\ ~ToolCallResult(p, FALSE)
               \/ Transcription(p, 0)
               \/ ResponseStart(p) \/ ResponseText(p) \/ ResponseEnd(p) )
             => alerts' = alerts]_vars

\* C33 as claimed: every tool-call-result event handled for a live
\* conversation raises exactly one of tool_success_count and
\* tool_failure_count by 1, the failure counter iff the result is a failure,
\* and appends exactly one entry to the actions log, whether or not a
\* tool-call-start came before it
EveryToolResultRecorded ==
  [][\A p \in ProcIds, success \in BOOLEAN :
       (ToolCallResult(p, success) /\ HasConversation(procs[p].call_id))
       => LET old == conversations[procs[p].call_id]
              new == conversations'[procs[p].call_id]
          IN /\ new.sid = old.sid
             /\ new.tool_success_count + new.tool_failure_count
                  = old.tool_success_count + old.tool_failure_count + 1
             /\ new.tool_success_count
                  \in {old.tool_success_count, old.tool_success_count + 1}
             /\ new.tool_failure_count
                  \in {old.tool_failure_count, old.tool_failure_count + 1}
             /\ procs[p].current_tool_call # "none"
                  => (new.tool_failure_count = old.tool_failure_count + 1
                        <=> ~success)
             /\ Len(new.actions_taken) = Len(old.actions_taken) + 1]_vars

(***************************************************************************)
(* Properties of the trigger the engine returns (SpecEngine).              *)
(***************************************************************************)
\* the triggers of the six factors, in the order repetition, sentiment,
\* high_risk_intent, tool_failures, turn_count, explicit_request
TriggerOfFactor ==
  <<"repeated_queries", "high_frustration", "confidence_threshold",
    "tool_failures", "long_conversation", "explicit_request">>

\* C34: without an immediate override, a confidence of at least 0.75 returns
\* the trigger mapped from the factor with the highest value, ties broken by
\* the order repetition, sentiment, high_risk_intent, tool_failures,
\* turn_count, explicit_request; a confidence below 0.75 returns no trigger
TriggerFromGreatestFactor ==
  (returned # NoReturn /\ ImmediateIntentsOf(conversations["c1"]) = {})
    => IF returned.confidence >= AutoEscalateThreshold
       THEN \E i \in 1 .. 6 :
              /\ returned.trigger = TriggerOfFactor[i]
              /\ \A j \in 1 .. 6 :
                   returned.factors[FactorNames[j]]
                     <= returned.factors[FactorNames[i]]
              /\ \A j \in 1 .. i - 1 :
                   returned.factors[FactorNames[j]]
                     < returned.factors[FactorNames[i]]
       ELSE returned.trigger = "none"

\* the tool_failures factor is the first of three factors at 1.0 and has
\* given the trigger
ToolFailuresFirstOfTied ==
  /\ returned # NoReturn
  /\ ImmediateIntentsOf(conversations["c1"]) = {}
  /\ returned.trigger = "tool_failures"
  /\ returned.factors["turn_count"] = FactorOne
  /\ returned.factors["explicit_request"] = FactorOne

\* C35: compute_confidence changes no field of the state other than
\* escalation_confidence and escalation_factors, and a second compute on the
\* state it left returns the same confidence, factors and trigger
ComputeOnlyCachesItsResult ==
  [][\A c \in CallIds :
       EngineCompute(c)
       => LET again == ComputeConfidence(conversations'[c])
          IN /\ conversations'[c] =
                  [conversations[c] EXCEPT
                     !.escalation_confidence = conversations'[c].escalation_confidence,
                     !.escalation_factors = conversations'[c].escalation_factors]
             /\ \A other \in CallIds \ {c} :
                  conversations'[other] = conversations[other]
             /\ again.confidence = returned'.confidence
             /\ again.factors = returned'.factors
             /\ again.trigger = returned'.trigger
             /\ again.state = conversations'[c]
             /\ returned # NoReturn => returned' = returned]_vars

\* a compute has cached a confidence between the threshold and 1.0 in a
\* state of ten turns, which it left with its turns and counters
CachedAboveThreshold ==
  /\ returned # NoReturn
  /\ conversations["c1"].escalation_confidence = returned.confidence
  /\ conversations["c1"].escalation_factors = returned.factors
  /\ returned.confidence > AutoEscalateThreshold
  /\ returned.confidence < ConfOne
  /\ conversations["c1"].turn_count = 10
  /\ Len(conversations["c1"].turns) = 10
  /\ ~conversations["c1"].escalation_triggered

(***************************************************************************)
(* Properties of the dashboards (SpecDash).                                *)
(***************************************************************************)
\* the number of new_alert messages for alert id that the websocket of the
\* agent was sent
NewAlertsSent(agent, id) ==
  Cardinality({k \in 1 .. Len(dashboards[agent].new_alerts) :
                 dashboards[agent].new_alerts[k] = id})

\* C36 as claimed: a connected dashboard is sent the new_alert message of an
\* alert at most once, and exactly once when the alert was enqueued while it
\* was connected and the fan-out of the alert has ended
NewAlertOncePerDashboard ==
  \A agent \in DashboardAgents, id \in AlertIds :
    dashboards[agent].connected
      => /\ NewAlertsSent(agent, id) <= 1
         /\ (id > dashboards[agent].since
               /\ \A task \in tasks : task.alert # id)
              => NewAlertsSent(agent, id) = 1

(***************************************************************************)
(* Properties of the bots (SpecBots).                                      *)
(***************************************************************************)
\* the instances of the room whose task has not ended and is not cancelled
RunningIn(room_name) ==
  {b \in BotIds : /\ instances[b].room_name = room_name
                  /\ instances[b].task \in {"created", "running"}}

\* C37 as claimed: after every step at most one agent task runs per room
\* and every running agent is the one registered in active_bots under its
\* room, and join_room for a room with a registered bot returns that
\* instance and creates no agent
OneBotPerRoom ==
  [][/\ \A room_name \in BotRooms :
          /\ Cardinality(RunningIn(room_name)') <= 1
          /\ \A b \in RunningIn(room_name)' : active_bots'[room_name] = b
      /\ \A joined \in BotRooms :
          (JoinRoom(joined) /\ active_bots[joined] # 0)
            => /\ instances' = instances
               /\ returned'.alert = active_bots[joined]]_vars

(***************************************************************************)
(* Properties of the manager's collections (SpecOps).                      *)
(***************************************************************************)
\* the positions of the sequence at which alert id stands
PlacesIn(s, id) == {i \in 1 .. Len(s) : s[i] = id}

\* the number of places alert id has in the queue, the active index and the
\* completed log together
Holdings(id) ==
  Cardinality(PlacesIn(queue, id))
    + Cardinality({c \in CallIds : active[c] = id})
    + Cardinality(PlacesIn(completed, id))

\* C38: in every state the alerts of the queue are QUEUED, those of the
\* active index are ASSIGNED or IN_PROGRESS and have an assigned agent,
\* those of the completed log are COMPLETED, and no alert has more than one
\* place in the three collections together
CollectionsAgreeWithStatus ==
  /\ \A i \in 1 .. Len(queue) : alerts[queue[i]].status = "queued"
  /\ \A c \in CallIds :
       active[c] # 0
         => /\ alerts[active[c]].status \in {"assigned", "in_progress"}
            /\ alerts[active[c]].assigned_agent_id # "none"
  /\ \A i \in 1 .. Len(completed) : alerts[completed[i]].status = "completed"
  /\ \A id \in AlertIds : Holdings(id) <= 1

\* an alert that was queued, assigned and started is in the completed log
\* while a later alert of the same call is in the active index, its call
\* started after a token failure
CompletedBesideActive ==
  /\ Len(alerts) = 2
  /\ completed = <<1>>
  /\ alerts[1].started_at # -1
  /\ active["c1"] = 2
  /\ alerts[2].status = "in_progress"
  /\ queue = << >>

\* C39 as claimed: every alert trigger_handoff created has, in every later
\* state, exactly one place in the queue, the active index and the completed
\* log together, where its alert id finds it for the calls that lead it to
\* COMPLETED, also when two alerts carry one call_id
EveryAlertHeldOnce ==
  \A id \in AlertIds :
    /\ Holdings(id) = 1
    /\ alerts[id].status = "queued" => id \in byId
    /\ alerts[id].status \in {"assigned", "in_progress"} => IsActive(id)

====
